---- MODULE Spec2Model ----
(***************************************************************************)
(* Verification model of the CBICQC quality-metrics engine                 *)
(* (jmtyszka/cbicqc): ROI construction (cbicqc/rois.py), motion            *)
(* estimation / post-processing (cbicqc/moco.py, CBICQC._moco), the run    *)
(* loop over the series (CBICQC.run), the series discovery                 *)
(* (CBICQC._get_epits_list), the timeseries extractor                      *)
(* (cbicqc/timeseries.py), the detrending script (cbicqa_detrend.py) and   *)
(* the daily HTML report (cbicqa_report.py).                               *)
(***************************************************************************)
EXTENDS Integers, Sequences, FiniteSets, TLC

VARIABLES
    labels_nii,   \* make_rois: input label volume [shape, data]
    rois_nii,     \* make_rois: returned ROI volume, or NoVolume before the call
    roi_pc,       \* make_rois: "start" | "returned"
    mode,         \* CBICQC._mode, a string as the sequence of its words
    meta,         \* sidecar metadata dictionary handed to _moco
    img_nii,      \* 4-D series handed to _moco: [nt, pixdim, data]
    moco_pc,      \* _moco: "start" | "returned" | "raised" | "exit"
    moco_err,     \* exception that ended _moco, or "none"
    estimator,    \* motion estimator _moco called, or "none"
    moco_nii,     \* motion-corrected series (frames), <<>> before the call
    moco_pars,    \* raw parameter array returned by the estimator
    moco_df,      \* table returned by moco_postprocess
    img_b,        \* a second series given to moco_phantom in a separate call
    moco_b,       \* [moco_img, moco_pars] returned for img_b
    frames_done,  \* moco_phantom loop: frames whose step has run
    run_pc,       \* CBICQC.run: position in the loop over the series
    run_no,       \* number of the run of CBICQC.run on this dataset
    run_err,      \* exception that ended the run, or "none"
    epits_i,      \* index into epits_list of the series being analysed
    work_dir,     \* files of each series' work directory
    report_dir,   \* per series: which of the report PDF and JSON exist
    fsl_bin,      \* which binaries exist under $FSLDIR/bin
    procs,        \* external tool invocations of this run, in order
    loaded,       \* per series: files the analysis of this run loaded
    metric_list,  \* run(): series whose metrics were appended
    stage_log,    \* _analyze_and_report: stages completed for the current series
    template,     \* template register_template chose for the current series
    analysed,     \* per series: calls of _analyze_and_report in this run
    qa_ts,        \* cbicqa_detrend: the three columns of qa_timeseries.txt
    detrend_pc,   \* cbicqa_detrend main: "start" | "done" | "raised" | "exit"
    detrend_err,  \* exception that ended main, or "none"
    fit_res,      \* per ROI: [opt, res, res_sd, spikes] computed by main
    qa_files,     \* files main wrote: per file name, its columns
    s_mean_t,     \* value returned by extract_timeseries
    extract_pc,   \* extract_timeseries: "start" | "returned"
    bids_files,   \* _get_epits_list: paths of the files in the BIDS dataset
    no_sessions,  \* CBICQC._no_sessions
    epits_list,   \* paths returned by _get_epits_list
    epits_pc,     \* _get_epits_list: "start" | "returned"
    qa_info,      \* cbicqa_report: entries of qa_info.txt
    qa_stats,     \* cbicqa_report: entries of qa_stats.txt, or <<>> if no file
    qa_dict,      \* cbicqa_report: substitution dictionary of the HTML report
    html_data,    \* cbicqa_report: text substituted for each template field
    html_pc       \* cbicqa_report main: "start" | "done" | "exit"

roi_vars == <<labels_nii, rois_nii, roi_pc>>

moco_vars == <<mode, meta, img_nii, moco_pc, moco_err, estimator, moco_nii,
               moco_pars, moco_df>>

pair_vars == <<img_b, moco_b>>

run_vars == <<run_pc, run_no, run_err, epits_i, work_dir, report_dir, fsl_bin,
              procs, loaded, metric_list, stage_log, template, analysed>>

detrend_vars == <<qa_ts, detrend_pc, detrend_err, fit_res, qa_files>>

extract_vars == <<s_mean_t, extract_pc>>

epits_vars == <<bids_files, no_sessions, epits_list, epits_pc>>

html_vars == <<qa_info, qa_stats, qa_dict, html_data, html_pc>>

ext_vars == <<pair_vars, frames_done, run_vars, detrend_vars, extract_vars,
              epits_vars, html_vars>>

vars == <<roi_vars, moco_vars, ext_vars>>

(***************************************************************************)
(* Volumes                                                                 *)
(***************************************************************************)

\* Largest size of the second (phase-encode) axis of a label volume.
MaxNy == 4

\* Label of the signal volume in the template label images (0: background
\* air, 1: padding between signal and air/ghost, 2: signal).
SignalLabel == 2

NoVolume == [shape |-> <<0, 0, 0>>, data |-> <<>>]

\* Voxel index set of an array of the given 3-D shape (numpy indexing, 0-based).
Voxels(shape) == (0 .. shape[1] - 1) \X (0 .. shape[2] - 1) \X (0 .. shape[3] - 1)

\* Shapes of the label volumes the model draws.
RoiShapes == { <<nx, ny, 1>> : nx \in 1 .. 2, ny \in 1 .. MaxNy }

\* The label volumes the model draws: every assignment of labels to the
\* voxels of one of the shapes.
IsLabelVolume(nii) ==
    \E sh \in RoiShapes : \E d \in [Voxels(sh) -> 0 .. SignalLabel] :
        nii = [shape |-> sh, data |-> d]

\* numpy uint8 arithmetic wraps modulo 256.
U8(x) == x % 256

(***************************************************************************)
(* make_rois (cbicqc/rois.py)                                              *)
(***************************************************************************)

\* Faulty variant: the buffer mask leaves out the padding (label 1).
buffer_mask_nopadding(labels_img) ==
    [v \in DOMAIN labels_img |-> IF labels_img[v] > 1 THEN 1 ELSE 0]

\* buffer_mask = (labels_img > 0).astype(np.uint8)
buffer_mask(labels_img) ==
    [v \in DOMAIN labels_img |-> IF labels_img[v] > 0 THEN 1 ELSE 0]

\* signal_mask = (labels_img > 1).astype(np.uint8)
signal_mask(labels_img) ==
    [v \in DOMAIN labels_img |-> IF labels_img[v] > 1 THEN 1 ELSE 0]

\* Faulty variant: a zero-padded shift, rows shifted past the edge are lost.
Roll1_zeropad(a, ny, shift) ==
    [v \in DOMAIN a |->
        IF v[2] - shift >= 0 THEN a[<<v[1], v[2] - shift, v[3]>>] ELSE 0]

\* np.roll(a, shift, axis=1): out[x, (y + shift) mod ny, z] = a[x, y, z]
Roll1(a, ny, shift) ==
    [v \in DOMAIN a |-> a[<<v[1], (v[2] - shift) % ny, v[3]>>]]

\* nyquist_mask = np.roll(signal_mask, int(ny / 2), axis=1)
nyquist_mask(signal, ny) == Roll1(signal, ny, ny \div 2)

\* Faulty variant: the Nyquist mask is used without removing the buffer mask.
nyquist_only_mask_keepbuffer(nyquist, buffer) == nyquist

\* nyquist_only_mask = nyquist_mask * (1 - buffer_mask)
nyquist_only_mask(nyquist, buffer) ==
    [v \in DOMAIN nyquist |-> U8(nyquist[v] * U8(1 - buffer[v]))]

\* Faulty variant: the ghost mask is not removed from the air mask.
air_mask_keepghost(buffer, nyquist_only) ==
    [v \in DOMAIN buffer |-> U8(1 - buffer[v])]

\* air_mask = (1 - buffer_mask) - nyquist_only_mask
air_mask(buffer, nyquist_only) ==
    [v \in DOMAIN buffer |-> U8(U8(1 - buffer[v]) - nyquist_only[v])]

\* rois = air_mask + 2 * nyquist_only_mask + 3 * signal_mask
merge_masks(air, nyquist_only, signal) ==
    [v \in DOMAIN air |-> U8(U8(air[v] + U8(2 * nyquist_only[v])) + U8(3 * signal[v]))]

\* The masks make_rois derives from a label volume, in the order of the code.
roi_masks(nii) ==
    LET buffer == buffer_mask(nii.data)
        signal == signal_mask(nii.data)
        nyquist == nyquist_mask(signal, nii.shape[2])
        nyquist_only == nyquist_only_mask(nyquist, buffer)
    IN  [buffer |-> buffer, signal |-> signal, nyquist |-> nyquist,
         nyquist_only |-> nyquist_only, air |-> air_mask(buffer, nyquist_only)]

\* make_rois(labels_nii): the merged masks wrapped in a Nifti object of the
\* same shape; no check of the masks is made.
make_rois(nii) ==
    LET m == roi_masks(nii)
    IN  [shape |-> nii.shape, data |-> merge_masks(m.air, m.nyquist_only, m.signal)]

(***************************************************************************)
(* Floating-point values are modelled as exact rationals <<n, d>> in lowest *)
(* terms with d > 0; <<0, 0>> stands for NaN (the quotient 0/0).           *)
(***************************************************************************)

RECURSIVE Gcd(_, _)
Gcd(a, b) == IF b = 0 THEN a ELSE Gcd(b, a % b)

IAbs(x) == IF x < 0 THEN -x ELSE x

NaN == <<0, 0>>

IsNaN(r) == r[2] = 0

\* The quotient n / d of two integers (0/0 is NaN; the model never divides a
\* non-zero number by zero).
Rat(n, d) ==
    IF d = 0 THEN NaN
    ELSE LET g == Gcd(IAbs(n), IAbs(d))
             sg == IF d < 0 THEN -1 ELSE 1
         IN  <<sg * (n \div g), IAbs(d) \div g>>

Zero == <<0, 1>>

RInt(n) == <<n, 1>>

RAdd(a, b) ==
    IF IsNaN(a) \/ IsNaN(b) THEN NaN
    ELSE Rat(a[1] * b[2] + b[1] * a[2], a[2] * b[2])

RSub(a, b) ==
    IF IsNaN(a) \/ IsNaN(b) THEN NaN
    ELSE Rat(a[1] * b[2] - b[1] * a[2], a[2] * b[2])

RAbs(a) == IF IsNaN(a) THEN NaN ELSE <<IAbs(a[1]), a[2]>>

\* k * a for an integer k
RScale(k, a) == IF IsNaN(a) THEN NaN ELSE Rat(k * a[1], a[2])

(***************************************************************************)
(* moco_phantom (cbicqc/moco.py)                                           *)
(***************************************************************************)

\* Largest number of frames of a series given to the phantom estimator.
MaxT == 3

\* Spatial shapes of the series the model draws.
ImgShapes == { <<2, 1, 1>>, <<1, 2, 1>> }

\* Voxel intensities of the series the model draws.
Intensities == {0, 1, 2}

\* Voxel sizes (header pixdim[1:4], millimetres) of the series the model draws.
VoxSizes == { <<2, 3, 4>> }

\* 4-D series: nt frames, each a function from the voxels to an intensity.
Series(shape, nt) == [0 .. nt - 1 -> [Voxels(shape) -> Intensities]]

\* Number of elements of the flattened 4-D array.
NumElems(img, nt) == nt * Cardinality(DOMAIN img[0])

\* Number of elements of the flattened array that are <= x.
CountLeq(img, nt, x) ==
    LET RECURSIVE Sum(_)
        Sum(t) == IF t = nt THEN 0
                  ELSE Cardinality({ v \in DOMAIN img[t] : img[t][v] <= x }) + Sum(t + 1)
    IN  Sum(0)

\* The values of the flattened array.
Values(img, nt) == UNION { { img[t][v] : v \in DOMAIN img[t] } : t \in 0 .. nt - 1 }

\* k-th element (0-based) of the sorted flattened array, from the table
\* cnt[x] = number of elements <= x.
Sorted(cnt, k) ==
    CHOOSE x \in DOMAIN cnt :
        /\ cnt[x] >= k + 1
        /\ \A y \in DOMAIN cnt : cnt[y] >= k + 1 => x <= y

\* np.percentile(img, q), linear interpolation between the two nearest ranks
\* of the flattened array of n elements, times 100: the virtual index is
\* q (n - 1) / 100.
Percentile100(cnt, n, q) ==
    LET lo == (q * (n - 1)) \div 100
        rem == (q * (n - 1)) % 100
        hi == IF lo + 1 > n - 1 THEN n - 1 ELSE lo + 1
    IN  100 * Sorted(cnt, lo) + rem * (Sorted(cnt, hi) - Sorted(cnt, lo))

\* np.clip(img, lo, hi) on intensities times 100: minimum(maximum(x, lo), hi).
clip100(img, nt, lo, hi) ==
    [t \in 0 .. nt - 1 |->
        [v \in DOMAIN img[t] |->
            LET x == 100 * img[t][v]
                raised == IF x < lo THEN lo ELSE x
            IN  IF raised > hi THEN hi ELSE raised]]

\* p1, p99 = np.percentile(img, (1, 99)), times 100.
percentile_1_99(img, nt) ==
    LET cnt == [x \in Values(img, nt) |-> CountLeq(img, nt, x)]
        n == NumElems(img, nt)
    IN  << Percentile100(cnt, n, 1), Percentile100(cnt, n, 99) >>

\* p1, p99 = np.percentile(img, (1, 99)); img_clip = np.clip(img, p1, p99):
\* the percentiles are those of the whole 4-D array.
img_clip(img, nt) ==
    LET p == percentile_1_99(img, nt)
    IN  clip100(img, nt, p[1], p[2])

\* Sum over the voxels of a frame of weight(v) * frame[v].
RECURSIVE WeightedSum(_, _, _)
WeightedSum(frame, vs, axis) ==
    IF vs = {} THEN 0
    ELSE LET v == CHOOSE u \in vs : TRUE
             w == IF axis = 0 THEN 1 ELSE v[axis]
         IN  w * frame[v] + WeightedSum(frame, vs \ {v}, axis)

\* scipy.ndimage center_of_mass: per axis, sum(input * index) / sum(input).
center_of_mass(frame) ==
    LET normalizer == WeightedSum(frame, DOMAIN frame, 0)
    IN  [a \in 1 .. 3 |-> Rat(WeightedSum(frame, DOMAIN frame, a), normalizer)]

\* scipy.ndimage shift(input, shift, mode='nearest'): the spline-resampled
\* frame, kept as the term of its arguments.
shift(input, d) == [op |-> "shift", input |-> input, shift |-> d, mode |-> "nearest"]

\* A frame of the series as it is, not resampled.
Raw(frame) == [op |-> "copy", input |-> frame, shift |-> <<Zero, Zero, Zero>>, mode |-> "none"]

ZeroRow == <<Zero, Zero, Zero, Zero, Zero, Zero>>

\* Faulty variant: one row too many is allocated.
zeros_nt6_extra(nt) ==
    [ndim |-> 2, shape0 |-> nt + 1, rows |-> [t \in 0 .. nt |-> ZeroRow]]

\* np.zeros([nt, 6])
zeros_nt6(nt) ==
    [ndim |-> 2, shape0 |-> nt, rows |-> [t \in 0 .. nt - 1 |-> ZeroRow]]

\* Faulty variant: the translation is written to columns 0-2.
SetTranslation_rot(row, d) == [row EXCEPT ![1] = d[1], ![2] = d[2], ![3] = d[3]]

\* moco_pars[tc, 3:6] = d: columns 3-5 of a row (FSL convention
\* [rx, ry, rz, dx, dy, dz]) are overwritten, columns 0-2 are kept.
SetTranslation(row, d) == [row EXCEPT ![4] = d[1], ![5] = d[2], ![6] = d[3]]

\* Faulty variant: each frame is registered to the frame before it.
PhantomFrame_prevref(img, clip, vox_mm, tc) ==
    LET com_0 == center_of_mass(clip[tc - 1])
        com_t == center_of_mass(clip[tc])
        com_d == [a \in 1 .. 3 |-> RSub(com_0[a], com_t[a])]
    IN  [frame |-> shift(img[tc], com_d),
         trans |-> [a \in 1 .. 3 |-> RScale(vox_mm[a], com_d[a])]]

\* Body of the loop over tc of moco_phantom: the shifted frame tc and the
\* translation com_d * vox_mm recorded for it.
PhantomFrame(img, clip, vox_mm, tc) ==
    LET com_0 == center_of_mass(clip[0])
        com_t == center_of_mass(clip[tc])
        com_d == [a \in 1 .. 3 |-> RSub(com_0[a], com_t[a])]
    IN  [frame |-> shift(img[tc], com_d),
         trans |-> [a \in 1 .. 3 |-> RScale(vox_mm[a], com_d[a])]]

\* Faulty variant: the translation of frame tc is added to the translation
\* found in row tc - 1.
phantom_step_carry(st, img, clip, vox_mm, tc) ==
    LET f == PhantomFrame(img, clip, vox_mm, tc)
        prev == st.moco_pars.rows[tc - 1]
    IN  [moco_img |-> [st.moco_img EXCEPT ![tc] = f.frame],
         moco_pars |-> [st.moco_pars EXCEPT !.rows[tc] =
                          SetTranslation(@, [a \in 1 .. 3 |-> RAdd(f.trans[a], prev[a + 3])])]]

\* One pass of the loop body of moco_phantom, for frame tc, on the arrays
\* st = [moco_img, moco_pars]: moco_img[..., tc] and moco_pars[tc, 3:6] are
\* assigned; img, img_clip and com_0 are read.
phantom_step(st, img, clip, vox_mm, tc) ==
    LET f == PhantomFrame(img, clip, vox_mm, tc)
    IN  [moco_img |-> [st.moco_img EXCEPT ![tc] = f.frame],
         moco_pars |-> [st.moco_pars EXCEPT !.rows[tc] = SetTranslation(@, f.trans)]]

\* Faulty variant: the registration loop starts at frame 0.
LoopStart_zero == 1 - 1

\* First frame index of the registration loop: for tc in range(1, nt).
LoopStart == 1

\* moco_phantom(img_nii): moco_img = img.copy(), moco_pars = zeros([nt, 6]),
\* then frames LoopStart .. nt-1 are shifted and their rows filled.
moco_phantom(nii) ==
    LET nt == nii.nt
        clip == img_clip(nii.data, nt)
        pars0 == zeros_nt6(nt)
        done == [t \in LoopStart .. nt - 1 |->
                    PhantomFrame(nii.data, clip, nii.pixdim, t)]
    IN  [moco_img |-> [t \in 0 .. nt - 1 |->
                          IF t \in DOMAIN done THEN done[t].frame ELSE Raw(nii.data[t])],
         moco_pars |-> [pars0 EXCEPT !.rows =
                          [t \in DOMAIN pars0.rows |->
                              IF t \in DOMAIN done
                              THEN SetTranslation(pars0.rows[t], done[t].trans)
                              ELSE pars0.rows[t]]]]

(***************************************************************************)
(* calc_fd, butterworth_lpf, moco_postprocess (cbicqc/moco.py)             *)
(***************************************************************************)

\* A parameter array that has not been produced.
NoArray == [ndim |-> 0, shape0 |-> 0, rows |-> <<>>]

\* Faulty variant: the forward difference with a trailing 0.
BackDiff_forward(mocopars, c, t) ==
    IF t = mocopars.shape0 - 1 THEN Zero
    ELSE RSub(mocopars.rows[t + 1][c + 1], mocopars.rows[t][c + 1])

\* Element t of np.insert(np.diff(x), 0, 0) for x = column c of the array:
\* the backward difference, with a leading 0.
BackDiff(mocopars, c, t) ==
    IF t = 0 THEN Zero
    ELSE RSub(mocopars.rows[t][c + 1], mocopars.rows[t - 1][c + 1])

\* r_sphere = 50.0 mm
r_sphere == 50

\* Faulty variant: translations read from columns 0-2, rotations from columns 3-5.
fd_power_swapped(mocopars) ==
    [t \in 0 .. mocopars.shape0 - 1 |->
        RAdd(RAdd(RAdd(RAbs(BackDiff(mocopars, 0, t)), RAbs(BackDiff(mocopars, 1, t))),
                  RAbs(BackDiff(mocopars, 2, t))),
             RScale(r_sphere,
                    RAdd(RAdd(RAbs(BackDiff(mocopars, 3, t)), RAbs(BackDiff(mocopars, 4, t))),
                         RAbs(BackDiff(mocopars, 5, t)))))]

\* fd = |dtx| + |dty| + |dtz| + r_sphere * (|drx| + |dry| + |drz|)
\* with rotations in columns 0-2 and translations in columns 3-5.
fd_power(mocopars) ==
    [t \in 0 .. mocopars.shape0 - 1 |->
        RAdd(RAdd(RAdd(RAbs(BackDiff(mocopars, 3, t)), RAbs(BackDiff(mocopars, 4, t))),
                  RAbs(BackDiff(mocopars, 5, t))),
             RScale(r_sphere,
                    RAdd(RAdd(RAbs(BackDiff(mocopars, 0, t)), RAbs(BackDiff(mocopars, 1, t))),
                         RAbs(BackDiff(mocopars, 2, t)))))]

\* Butterworth order N = 5
ButterN == 5

\* Critical frequency fc = 0.2 Hz, in millihertz
ButterFc == 200

\* butterworth_lpf(TR): signal.butter(N, fc, fs=1/TR) designs the filter only
\* for a normalised critical frequency 2 fc / fs strictly between 0 and 1, and
\* raises ValueError otherwise. TR in milliseconds.
butterworth_ok(TR_ms) == 0 < 2 * ButterFc * TR_ms /\ 2 * ButterFc * TR_ms < 1000000

\* signal.filtfilt pads the input by padlen = 3 * max(len(a), len(b)) samples,
\* len(a) = len(b) = N + 1, and raises ValueError unless the input is longer.
filtfilt_padlen == 3 * (ButterN + 1)

\* A column holding x itself (op "zeros": x is all zero) or the forward-
\* backward filtered x (op "filtfilt").
ZerosColumn(nt) == [op |-> "zeros", x |-> [t \in 0 .. nt - 1 |-> Zero], TR_ms |-> 0]

\* calc_fd(mocopars, TR_s): IndexError on a 1-D array (mocopars[:, 0]),
\* ValueError from the filter design or from filtfilt, else (fd, fd_lpf).
calc_fd(mocopars, TR_ms) ==
    IF mocopars.ndim # 2 THEN [err |-> "IndexError"]
    ELSE IF ~butterworth_ok(TR_ms) THEN [err |-> "ValueError"]
    ELSE IF mocopars.shape0 <= filtfilt_padlen THEN [err |-> "ValueError"]
    ELSE LET fd == fd_power(mocopars)
         IN  [err |-> "none",
              fd |-> fd,
              fd_lpf |-> [op |-> "filtfilt", x |-> fd, TR_ms |-> TR_ms]]

\* Python substring test `word in mode`; a mode string is a sequence of words.
InMode(word, mode_str) == \E i \in 1 .. Len(mode_str) : mode_str[i] = word

\* Faulty variant: the phantom branch is never taken.
IsPhantomPost_never(mode_str) == FALSE

\* The test of moco_postprocess for the phantom branch: mode == 'phantom'.
IsPhantomPost(mode_str) == mode_str = <<"phantom">>

\* Faulty variant: in the phantom branch FD is computed and only the filtered FD is zero.
fd_variants_fdkept(moco_par_arr, TR_ms, mode_str) ==
    IF IsPhantomPost(mode_str)
    THEN IF moco_par_arr.ndim # 2
         THEN [err |-> "ValueError"]
         ELSE [err |-> "none",
               fd |-> fd_power(moco_par_arr),
               fd_lpf |-> ZerosColumn(moco_par_arr.shape0)]
    ELSE calc_fd(moco_par_arr, TR_ms)

\* The FD variants of moco_postprocess: zeros for mode == 'phantom', else calc_fd.
fd_variants(moco_par_arr, TR_ms, mode_str) ==
    IF IsPhantomPost(mode_str)
    THEN IF moco_par_arr.ndim # 2
         THEN [err |-> "ValueError"]      \* np.hstack of 2-D and 1-D arrays
         ELSE [err |-> "none",
               fd |-> ZerosColumn(moco_par_arr.shape0).x,
               fd_lpf |-> ZerosColumn(moco_par_arr.shape0)]
    ELSE calc_fd(moco_par_arr, TR_ms)

NoTable == [nt |-> 0, Time_s |-> <<>>, pars |-> <<>>, FD_mm |-> <<>>,
            FD_LPF_mm |-> ZerosColumn(0)]

\* moco_postprocess(moco_pars, meta, mode): KeyError when meta has no
\* RepetitionTime; else the time column, the six parameter columns (pars),
\* FD_mm and FD_LPF_mm.
moco_postprocess(moco_par_arr, meta_dict, mode_str) ==
    IF "RepetitionTime" \notin DOMAIN meta_dict THEN [err |-> "KeyError", df |-> NoTable]
    ELSE LET TR_ms == meta_dict["RepetitionTime"]
             nt == moco_par_arr.shape0
             v == fd_variants(moco_par_arr, TR_ms, mode_str)
         IN  IF v.err # "none" THEN [err |-> v.err, df |-> NoTable]
             ELSE [err |-> "none",
                   df |-> [nt |-> nt,
                           Time_s |-> [t \in 0 .. nt - 1 |-> t * TR_ms],
                           pars |-> moco_par_arr.rows,
                           FD_mm |-> v.fd,
                           FD_LPF_mm |-> v.fd_lpf]]

(***************************************************************************)
(* Specification of the ROI builder: a label volume is drawn, make_rois is *)
(* applied to it.                                                          *)
(***************************************************************************)

RoiIdle ==
    /\ labels_nii = NoVolume
    /\ rois_nii = NoVolume
    /\ roi_pc = "idle"

MocoIdle ==
    /\ mode = <<>>
    /\ meta = [EchoTime |-> 30]
    /\ img_nii = [nt |-> 0, pixdim |-> <<0, 0, 0>>, data |-> <<>>]
    /\ moco_pc = "idle"
    /\ moco_err = "none"
    /\ estimator = "none"
    /\ moco_nii = <<>>
    /\ moco_pars = NoArray
    /\ moco_df = NoTable

PairIdle ==
    /\ img_b = [nt |-> 0, pixdim |-> <<0, 0, 0>>, data |-> <<>>]
    /\ moco_b = [moco_img |-> <<>>, moco_pars |-> NoArray]

StepsIdle == frames_done = {}

RunIdle ==
    /\ run_pc = "idle"
    /\ run_no = 0
    /\ run_err = "none"
    /\ epits_i = 0
    /\ work_dir = <<>>
    /\ report_dir = <<>>
    /\ fsl_bin = [mcflirt |-> FALSE, flirt |-> FALSE]
    /\ procs = <<>>
    /\ loaded = <<>>
    /\ metric_list = <<>>
    /\ stage_log = <<>>
    /\ template = "none"
    /\ analysed = <<>>

DetrendIdle ==
    /\ qa_ts = <<>>
    /\ detrend_pc = "idle"
    /\ detrend_err = "none"
    /\ fit_res = <<>>
    /\ qa_files = <<>>

ExtractIdle ==
    /\ s_mean_t = <<>>
    /\ extract_pc = "idle"

EpitsIdle ==
    /\ bids_files = {}
    /\ no_sessions = FALSE
    /\ epits_list = {}
    /\ epits_pc = "idle"

HtmlIdle ==
    /\ qa_info = <<>>
    /\ qa_stats = <<>>
    /\ qa_dict = <<>>
    /\ html_data = <<>>
    /\ html_pc = "idle"

ExtIdle ==
    /\ PairIdle /\ StepsIdle /\ RunIdle /\ DetrendIdle /\ ExtractIdle
    /\ EpitsIdle /\ HtmlIdle

RoiInit ==
    /\ IsLabelVolume(labels_nii)
    /\ rois_nii = NoVolume
    /\ roi_pc = "start"
    /\ MocoIdle
    /\ ExtIdle

\* rois_nii = make_rois(labels_nii)   (cbicqc.py line 260)
MakeRois ==
    /\ roi_pc = "start"
    /\ rois_nii' = make_rois(labels_nii)
    /\ roi_pc' = "returned"
    /\ UNCHANGED labels_nii
    /\ UNCHANGED <<moco_vars, ext_vars>>

RoiNext == MakeRois

SpecRois == RoiInit /\ [][RoiNext]_vars

(***************************************************************************)
(* CBICQC._moco (cbicqc/cbicqc.py) and moco_live (cbicqc/moco.py)          *)
(***************************************************************************)

\* Mode strings given to CBICQC, as sequences of words: 'phantom', 'live',
\* strings that contain one of them or both, and strings that contain neither.
ModeStrings ==
    { <<"phantom">>, <<"live">>, <<"phantom", "x">>, <<"live", "x">>,
      <<"live", "phantom">>, <<"x">> }

\* Repetition times (milliseconds) of the sidecars the model draws; 3000 is
\* the RepetitionTime of default_metadata.
RepetitionTimes == {2000, 3000}

\* Metadata dictionaries: with RepetitionTime, or a sidecar that lacks it.
MetaDicts ==
    { [EchoTime |-> 30] } \cup
    { [EchoTime |-> 30, RepetitionTime |-> tr] : tr \in RepetitionTimes }

\* Series given to the phantom estimator: every series of 1 .. MaxT frames.
IsPhantomInput(nii) ==
    \E sh \in ImgShapes, nt \in 1 .. MaxT, px \in VoxSizes : \E d \in Series(sh, nt) :
        nii = [nt |-> nt, pixdim |-> px, data |-> d]

\* Phantom series long enough for filtfilt: every frame is f0 but frame 1,
\* which is f1.
IsLongPhantomInput(nii) ==
    \E sh \in ImgShapes, px \in VoxSizes :
        \E f0 \in [Voxels(sh) -> Intensities], f1 \in [Voxels(sh) -> Intensities] :
            nii = [nt |-> filtfilt_padlen + 1, pixdim |-> px,
                   data |-> [t \in 0 .. filtfilt_padlen |-> IF t = 1 THEN f1 ELSE f0]]

\* Numbers of frames of the series given to the external estimator: around
\* the shortest series filtfilt accepts, and the shortest series.
LiveLens == {1, 2, filtfilt_padlen, filtfilt_padlen + 1, filtfilt_padlen + 2}

\* Series given to the external estimator (of uniform intensity: the model
\* does not compute the external tool's registration).
IsLiveInput(nii) ==
    \E nt \in LiveLens, px \in VoxSizes :
        nii = [nt |-> nt, pixdim |-> px,
               data |-> [t \in 0 .. nt - 1 |-> [v \in Voxels(<<2, 1, 1>>) |-> 1]]]

\* Rows of the external tool's parameter table: one non-zero parameter at most.
SparseRows ==
    {ZeroRow} \cup
    { [c \in 1 .. 6 |-> IF c = k THEN RInt(x) ELSE Zero] : k \in 1 .. 6, x \in {-1, 1} }

\* Frames at which the pose of a drawn table changes.
JumpFrames(nt) == {1, nt \div 2, nt - 1, nt}

\* Parameter tables the external tool writes for nt frames: the pose is r0
\* up to frame j, then r1 (a step), or r1 at frame j alone (a spike).
LiveTables(nt) ==
    { [t \in 0 .. nt - 1 |-> IF t < j THEN r0 ELSE r1]
        : r0 \in SparseRows, r1 \in SparseRows, j \in JumpFrames(nt) } \cup
    { [t \in 0 .. nt - 1 |-> IF t = j THEN r1 ELSE r0]
        : r0 \in SparseRows, r1 \in SparseRows, j \in JumpFrames(nt) }

\* np.genfromtxt(out_pars): a table of one line loads as a 1-D array of 6.
genfromtxt(table, nt) ==
    IF nt = 1 THEN [ndim |-> 1, shape0 |-> 6, rows |-> table]
    ELSE [ndim |-> 2, shape0 |-> nt, rows |-> table]

\* Frames of the series the external tool writes, loaded by nb.load.
McflirtFrames(nii) ==
    [t \in 0 .. nii.nt - 1 |->
        [op |-> "mcflirt", input |-> nii.data[t],
         shift |-> <<Zero, Zero, Zero>>, mode |-> "external"]]

MocoInit ==
    /\ RoiIdle
    /\ ExtIdle
    /\ mode \in ModeStrings
    /\ meta \in MetaDicts
    /\ IF InMode("phantom", mode)
       THEN IsPhantomInput(img_nii) \/ IsLongPhantomInput(img_nii)
       ELSE IsLiveInput(img_nii)
    /\ moco_pc = "start"
    /\ moco_err = "none"
    /\ estimator = "none"
    /\ moco_nii = <<>>
    /\ moco_pars = NoArray
    /\ moco_df = NoTable

\* The tail of _moco: moco_df = moco_postprocess(moco_pars, meta, mode=self._mode)
Postprocess(pars) ==
    \E r \in {moco_postprocess(pars, meta, mode)} :
        /\ moco_df' = r.df
        /\ moco_err' = r.err
        /\ moco_pc' = IF r.err = "none" THEN "returned" ELSE "raised"

\* _moco with 'phantom' in self._mode: moco_phantom, then moco_postprocess.
MocoPhantom ==
    /\ moco_pc = "start"
    /\ InMode("phantom", mode)
    /\ \E r \in {moco_phantom(img_nii)} :
           /\ moco_nii' = r.moco_img
           /\ moco_pars' = r.moco_pars
           /\ Postprocess(r.moco_pars)
    /\ estimator' = "moco_phantom"
    /\ UNCHANGED <<mode, meta, img_nii>>
    /\ UNCHANGED <<roi_vars, ext_vars>>

\* _moco with 'live' in self._mode and the external tool writing its outputs:
\* moco_live loads them, then moco_postprocess.
MocoLive ==
    /\ moco_pc = "start"
    /\ ~InMode("phantom", mode)
    /\ InMode("live", mode)
    /\ \E table \in LiveTables(img_nii.nt) :
          /\ moco_nii' = McflirtFrames(img_nii)
          /\ moco_pars' = genfromtxt(table, img_nii.nt)
          /\ Postprocess(genfromtxt(table, img_nii.nt))
    /\ estimator' = "moco_live"
    /\ UNCHANGED <<mode, meta, img_nii>>
    /\ UNCHANGED <<roi_vars, ext_vars>>

\* _moco with 'live' in self._mode and the external tool writing no output
\* (not installed, or failed): nb.load(out_image) raises.
MocoLiveNoOutput ==
    /\ moco_pc = "start"
    /\ ~InMode("phantom", mode)
    /\ InMode("live", mode)
    /\ moco_pc' = "raised"
    /\ moco_err' = "FileNotFoundError"
    /\ estimator' = "moco_live"
    /\ UNCHANGED <<mode, meta, img_nii, moco_nii, moco_pars, moco_df>>
    /\ UNCHANGED <<roi_vars, ext_vars>>

\* _moco with a mode naming neither: sys.exit(1).
MocoUnknownMode ==
    /\ moco_pc = "start"
    /\ ~InMode("phantom", mode)
    /\ ~InMode("live", mode)
    /\ moco_pc' = "exit"
    /\ UNCHANGED <<mode, meta, img_nii, moco_err, estimator, moco_nii, moco_pars, moco_df>>
    /\ UNCHANGED <<roi_vars, ext_vars>>

MocoNext == MocoPhantom \/ MocoLive \/ MocoLiveNoOutput \/ MocoUnknownMode

SpecMoco == MocoInit /\ [][MocoNext]_vars

(***************************************************************************)
(* Claims about make_rois                                                  *)
(***************************************************************************)

\* Voxels of a ROI volume carrying ROI value k.
RoiSet(nii, k) == { v \in DOMAIN nii.data : nii.data[v] = k }

\* Voxels where a 0/1 mask is set.
MaskSet(m) == { v \in DOMAIN m : m[v] # 0 }

AirMaskSet == MaskSet(roi_masks(labels_nii).air)
GhostMaskSet == MaskSet(roi_masks(labels_nii).nyquist_only)
SignalMaskSet == MaskSet(roi_masks(labels_nii).signal)

\* C1: in the ROI volume returned by make_rois every voxel carries exactly
\* one of the four categories 0 (undefined), 1 (air), 2 (ghost), 3 (signal):
\* the air, ghost and signal masks are pairwise disjoint, each category of
\* the volume is exactly its mask, and the four counts sum to the number of
\* voxels.
C1_Partition ==
    roi_pc = "returned" =>
        /\ DOMAIN rois_nii.data = Voxels(labels_nii.shape)
        /\ \A v \in DOMAIN rois_nii.data : rois_nii.data[v] \in 0 .. 3
        /\ AirMaskSet \cap GhostMaskSet = {}
        /\ AirMaskSet \cap SignalMaskSet = {}
        /\ GhostMaskSet \cap SignalMaskSet = {}
        /\ RoiSet(rois_nii, 1) = AirMaskSet
        /\ RoiSet(rois_nii, 2) = GhostMaskSet
        /\ RoiSet(rois_nii, 3) = SignalMaskSet
        /\ Cardinality(RoiSet(rois_nii, 0)) + Cardinality(RoiSet(rois_nii, 1))
             + Cardinality(RoiSet(rois_nii, 2)) + Cardinality(RoiSet(rois_nii, 3))
           = Cardinality(Voxels(labels_nii.shape))

\* C1 witness: a returned ROI volume in which all four categories occur.
C1_Witness ==
    /\ roi_pc = "returned"
    /\ \A k \in 0 .. 3 : RoiSet(rois_nii, k) # {}

\* C2: the ghost mask and the signal mask of the ROI volume built by
\* make_rois share no voxel, for every size of the second axis.
C2_GhostSignalDisjoint ==
    roi_pc = "returned" =>
        /\ GhostMaskSet \cap SignalMaskSet = {}
        /\ \A v \in DOMAIN rois_nii.data :
              /\ rois_nii.data[v] = 2 => labels_nii.data[v] <= 1
              /\ labels_nii.data[v] > 1 => rois_nii.data[v] = 3

\* C2 witness: an odd second axis longer than one voxel on which the half-FOV
\* roll maps a non-empty signal region onto itself.
C2_Witness ==
    /\ roi_pc = "returned"
    /\ labels_nii.shape[2] = 3
    /\ SignalMaskSet # {}
    /\ roi_masks(labels_nii).nyquist = roi_masks(labels_nii).signal

\* C3: given a label volume with no signal voxel, the ROI builder raises an
\* EmptySegmentation error and returns no ROI volume.
C3_EmptyMaskRaises ==
    (roi_pc # "start" /\ SignalMaskSet = {}) =>
        (roi_pc = "EmptySegmentation" /\ rois_nii = NoVolume)

(***************************************************************************)
(* Claims about the motion estimator and the motion post-processor         *)
(***************************************************************************)

\* The FD formula as the specification states it, for frame t of a table of
\* rows <<rx, ry, rz, dx, dy, dz>>:
\* 50 (|d rx| + |d ry| + |d rz|) + |d dx| + |d dy| + |d dz|, d the backward
\* difference between rows t and t - 1.
AbsDelta(rows, t, c) == RAbs(RSub(rows[t][c], rows[t - 1][c]))

StatedFD(rows, t) ==
    RAdd(RScale(50, RAdd(AbsDelta(rows, t, 1),
                         RAdd(AbsDelta(rows, t, 2), AbsDelta(rows, t, 3)))),
         RAdd(AbsDelta(rows, t, 4), RAdd(AbsDelta(rows, t, 5), AbsDelta(rows, t, 6))))

\* The column is zero at every frame (filtfilt is linear: it returns the zero
\* signal exactly for the zero signal).
IsZeroColumn(col) == \A t \in DOMAIN col.x : col.x[t] = Zero

\* C4: row 0 of the FD column is exactly 0: in every table moco_postprocess
\* returns, in phantom and in live mode, and in the FD vector calc_fd computes
\* from any 2-D parameter array of at least one row.
C4_FdFrameZero ==
    /\ moco_pc = "returned" => (moco_df.nt >= 1 /\ moco_df.FD_mm[0] = Zero)
    /\ (estimator # "none" /\ moco_pars.ndim = 2 /\ moco_pars.shape0 >= 1) =>
           fd_power(moco_pars)[0] = Zero

\* C4 witness: a table returned in live mode whose row 0 is not the zero pose
\* and whose FD is not zero at frame 1.
C4_Witness ==
    /\ moco_pc = "returned"
    /\ estimator = "moco_live"
    /\ moco_df.pars[0] # ZeroRow
    /\ moco_df.FD_mm[1] # Zero

\* C5: for every frame t >= 1 the FD value computed by calc_fd is
\* 50 (|d rx| + |d ry| + |d rz|) + |d dx| + |d dy| + |d dz| with columns 0-2
\* read as rotations and columns 3-5 as translations.
C5_FdFormula ==
    /\ (moco_pc = "returned" /\ ~IsPhantomPost(mode)) =>
           \A t \in 1 .. moco_df.nt - 1 : moco_df.FD_mm[t] = StatedFD(moco_df.pars, t)
    /\ (estimator # "none" /\ moco_pars.ndim = 2) =>
           \A t \in 1 .. moco_pars.shape0 - 1 :
               fd_power(moco_pars)[t] = StatedFD(moco_pars.rows, t)

\* C5 witness: a table returned by the calc_fd branch in which a rotation and
\* a translation change between two frames.
C5_Witness ==
    /\ moco_pc = "returned"
    /\ ~IsPhantomPost(mode)
    /\ \E t \in 1 .. moco_df.nt - 1 :
          /\ \E c \in 1 .. 3 : moco_df.pars[t][c] # moco_df.pars[t - 1][c]
          /\ \E c \in 4 .. 6 : moco_df.pars[t][c] # moco_df.pars[t - 1][c]

\* C6: a phantom-mode run of the motion estimator on a series of one frame
\* shifts no frame and returns a table of exactly one record, all zero.
C6_SingleFrame ==
    (estimator = "moco_phantom" /\ img_nii.nt = 1) =>
        /\ moco_pars.ndim = 2
        /\ moco_pars.shape0 = 1
        /\ DOMAIN moco_pars.rows = {0}
        /\ moco_pars.rows[0] = ZeroRow
        /\ DOMAIN moco_nii = {0}
        /\ moco_nii[0] = Raw(img_nii.data[0])

\* C6 witness: the phantom estimator has run on a one-frame series with signal.
C6_Witness ==
    /\ estimator = "moco_phantom"
    /\ img_nii.nt = 1
    /\ \E v \in DOMAIN img_nii.data[0] : img_nii.data[0][v] > 0

\* C7: for every T >= 1 moco_phantom leaves frame 0 as it is, record 0 of the
\* table is all zero and the table has exactly T records.
C7_FrameZeroKept ==
    estimator = "moco_phantom" =>
        /\ moco_nii[0] = Raw(img_nii.data[0])
        /\ moco_pars.rows[0] = ZeroRow
        /\ moco_pars.shape0 = img_nii.nt
        /\ DOMAIN moco_pars.rows = 0 .. img_nii.nt - 1
        /\ DOMAIN moco_nii = 0 .. img_nii.nt - 1

\* C7 witness: the phantom estimator has run on a series of several frames
\* and has recorded a translation for a later frame.
C7_Witness ==
    /\ estimator = "moco_phantom"
    /\ img_nii.nt > 1
    /\ \E t \in 1 .. img_nii.nt - 1 : moco_pars.rows[t] # ZeroRow

\* C8: in phantom mode the three rotation components of every record of the
\* motion table are zero, whatever the intensities.
C8_RotationsZero ==
    estimator = "moco_phantom" =>
        /\ \A t \in DOMAIN moco_pars.rows : \A c \in 1 .. 3 : moco_pars.rows[t][c] = Zero
        /\ moco_pc = "returned" =>
               \A t \in DOMAIN moco_df.pars : \A c \in 1 .. 3 : moco_df.pars[t][c] = Zero

\* C8 witness: a table returned for a phantom run with a non-zero translation.
C8_Witness ==
    /\ estimator = "moco_phantom"
    /\ moco_pc = "returned"
    /\ \E t \in DOMAIN moco_df.pars : \E c \in 4 .. 6 :
           moco_df.pars[t][c] # Zero /\ ~IsNaN(moco_df.pars[t][c])

\* C9: for a run in mode 'phantom' the filtered FD column of the table
\* returned by moco_postprocess is zero at every frame, whatever translations
\* the estimator recorded.
C9_PhantomFilteredZero ==
    (moco_pc = "returned" /\ mode = <<"phantom">>) =>
        /\ DOMAIN moco_df.FD_LPF_mm.x = 0 .. img_nii.nt - 1
        /\ IsZeroColumn(moco_df.FD_LPF_mm)

\* C9 witness: a table returned in mode 'phantom' for a series long enough
\* to be filtered, with a non-zero translation recorded.
C9_Witness ==
    /\ moco_pc = "returned"
    /\ mode = <<"phantom">>
    /\ moco_df.nt > filtfilt_padlen
    /\ \E t \in DOMAIN moco_df.pars : \E c \in 4 .. 6 :
           moco_df.pars[t][c] # Zero /\ ~IsNaN(moco_df.pars[t][c])

\* C10 as stated: in phantom mode too the FD column of the returned table is
\* the sum of the absolute backward differences of the recorded translations
\* (checked at the frames where these are numbers).
C10_PhantomFdComputed ==
    (moco_pc = "returned" /\ mode = <<"phantom">>) =>
        \A t \in 1 .. moco_df.nt - 1 :
            ~IsNaN(StatedFD(moco_df.pars, t)) =>
                moco_df.FD_mm[t] = StatedFD(moco_df.pars, t)

\* C10 amended: the returned table carries FD computed by the FD formula, and
\* its filtered variant, only when the mode is not 'phantom'; in mode
\* 'phantom' the FD column and the filtered column are both zero at every
\* frame, whatever translations were recorded.
C10_FdByMode ==
    moco_pc = "returned" =>
        /\ DOMAIN moco_df.FD_mm = 0 .. moco_df.nt - 1
        /\ IF mode = <<"phantom">>
           THEN /\ \A t \in DOMAIN moco_df.FD_mm : moco_df.FD_mm[t] = Zero
                /\ moco_df.FD_LPF_mm.op = "zeros"
                /\ IsZeroColumn(moco_df.FD_LPF_mm)
           ELSE /\ moco_df.FD_mm[0] = Zero
                /\ \A t \in 1 .. moco_df.nt - 1 :
                       moco_df.FD_mm[t] = StatedFD(moco_df.pars, t)
                /\ moco_df.FD_LPF_mm.op = "filtfilt"
                /\ moco_df.FD_LPF_mm.x = moco_df.FD_mm

\* C10 witness: a table returned in mode 'phantom' whose recorded
\* translations change between frames while its FD column is zero.
C10_Witness ==
    /\ moco_pc = "returned"
    /\ mode = <<"phantom">>
    /\ \E t \in 1 .. moco_df.nt - 1 :
          /\ ~IsNaN(StatedFD(moco_df.pars, t))
          /\ StatedFD(moco_df.pars, t) # Zero
          /\ moco_df.FD_mm[t] = Zero

(***************************************************************************)
(* CBICQC.run (cbicqc/cbicqc.py): the loop over the series, with the files *)
(* of the work and report directories.  A file is "absent", "fresh"        *)
(* (written by this run from this run's data), "derived" (written by this  *)
(* run from a file an earlier run left) or "stale" (left by an earlier     *)
(* run).                                                                   *)
(***************************************************************************)

\* Number of series _get_epits_list returns.
MaxSeries == 2

\* Number of runs of CBICQC.run on the same dataset.
MaxRuns == 2

NoFiles ==
    [qc |-> "absent", qc_mcf |-> "absent", qc_mcf_par |-> "absent",
     fixed |-> "absent", xfm |-> "absent", labels_xfm |-> "absent"]

NotLoaded == [moco |-> "none", labels |-> "none"]

\* Tag of a file an external tool writes from an input file.
Written(input_tag) == IF input_tag = "fresh" THEN "fresh" ELSE "derived"

\* What a call of mcflirt can do: exit 0 with both outputs, or a non-zero
\* exit with no output, with the image alone, or with both (partial) outputs.
McflirtOutcomes ==
    { [exit |-> "0", image |-> TRUE, par |-> TRUE],
      [exit |-> "1", image |-> FALSE, par |-> FALSE],
      [exit |-> "1", image |-> TRUE, par |-> FALSE],
      [exit |-> "1", image |-> TRUE, par |-> TRUE] }

\* moco_live(img_nii, work_dir) on the files of a work directory; o is what
\* mcflirt does if it is called.  Returns the files, the tool invocations,
\* the exception raised and the tag of the series loaded.
moco_live(files, mcflirt_exists, o) ==
    LET f1 == IF files.qc # "absent" THEN files ELSE [files EXCEPT !.qc = "fresh"]
        missing == f1.qc_mcf = "absent"
        called == missing /\ mcflirt_exists
        f2 == IF called
              THEN [f1 EXCEPT !.qc_mcf = IF o.image THEN Written(f1.qc) ELSE "absent",
                              !.qc_mcf_par = IF o.par THEN Written(f1.qc) ELSE @]
              ELSE f1
        calls == IF called THEN << [tool |-> "mcflirt", exit |-> o.exit] >>
                 ELSE IF missing THEN << [tool |-> "mcflirt", exit |-> "not_found"] >>
                 ELSE << >>
        err == IF f2.qc_mcf = "absent" THEN "FileNotFoundError"
               ELSE IF f2.qc_mcf_par = "absent" THEN "OSError"
               ELSE "none"
    IN  [files |-> f2, calls |-> calls, err |-> err,
         moco |-> IF err = "none" THEN f2.qc_mcf ELSE "none"]

\* register_template(tmean_nii, work_dir, mode) on the files of a work
\* directory; reg_ok and apply_ok tell whether the two flirt calls succeed.
\* The mode selects the template only.
register_template(files, flirt_exists, reg_ok, apply_ok) ==
    LET f1 == [files EXCEPT !.fixed = "fresh"]
        f2 == IF reg_ok THEN [f1 EXCEPT !.xfm = "fresh"] ELSE f1
        applied == apply_ok /\ f2.xfm # "absent"
        f3 == IF applied THEN [f2 EXCEPT !.labels_xfm = Written(f2.xfm)] ELSE f2
    IN  IF ~flirt_exists
        THEN [files |-> f1,
              calls |-> << [tool |-> "flirt", exit |-> "not_found"] >>,
              err |-> "FileNotFoundError", labels |-> "none"]
        ELSE [files |-> f3,
              calls |-> << [tool |-> "flirt", exit |-> IF reg_ok THEN "0" ELSE "1"],
                           [tool |-> "flirt_applyxfm",
                            exit |-> IF applied THEN "0" ELSE "1"] >>,
              err |-> IF f3.labels_xfm = "absent" THEN "FileNotFoundError" ELSE "none",
              labels |-> IF f3.labels_xfm = "absent" THEN "none" ELSE f3.labels_xfm]

\* Tool invocations of a series, tagged with the series.
Tagged(calls, i) == [k \in 1 .. Len(calls) |-> [series |-> i, tool |-> calls[k].tool,
                                               exit |-> calls[k].exit]]

\* The test of register_template for its phantom branch: 'phantom' in mode
\* selects the FBIRN phantom template, any other mode the MNI template.
\* Faulty variant: the phantom template only for the mode 'phantom' itself.
template_for_exact(mode_str) == IF mode_str = <<"phantom">> THEN "fbirn" ELSE "mni"

template_for(mode_str) == IF InMode("phantom", mode_str) THEN "fbirn" ELSE "mni"

\* What the JSON sidecar of a series holds: no readable file, all the fields
\* the analysis reads, the timing fields only, or no timing fields.
SidecarKinds == {"absent", "complete", "timing_only", "no_timing"}

\* json.load of a sidecar that opens.
json_load(kind) ==
    IF kind = "complete"
    THEN [RepetitionTime |-> 2000, EchoTime |-> 30, SequenceName |-> "epfid2d1_64",
          ReceiveCoilName |-> "HeadNeck_64", BandwidthPerPixelPhaseEncode |-> "30.0"]
    ELSE IF kind = "timing_only"
    THEN [RepetitionTime |-> 2000, EchoTime |-> 30]
    ELSE [EchoTime |-> 30]

\* default_metadata(): RepetitionTime 3.0 s, EchoTime 0.030 s.
default_metadata ==
    [Manufacturer |-> "Unkown", Scanner |-> "Unknown", RepetitionTime |-> 3000,
     EchoTime |-> 30]

\* if key not in meta: meta[key] = value
SetDefault(d, key, value) ==
    IF key \in DOMAIN d THEN d
    ELSE [k \in DOMAIN d \cup {key} |-> IF k = key THEN value ELSE d[k]]

\* The metadata _analyze_and_report hands to _moco: the sidecar, or the
\* defaults on IOError, then the three fields filled in when missing.
load_metadata(kind) ==
    LET m0 == IF kind = "absent" THEN default_metadata ELSE json_load(kind)
        m1 == SetDefault(m0, "SequenceName", "Unknown Sequence")
        m2 == SetDefault(m1, "ReceiveCoilName", "Unknown Coil")
    IN  SetDefault(m2, "BandwidthPerPixelPhaseEncode", "-")

\* Faulty variant: a series is skipped as soon as one report file exists.
reports_exist_either(rep) == rep.pdf \/ rep.json

\* os.path.isfile(self._report_pdf) and os.path.isfile(self._report_json)
reports_exist(rep) == rep.pdf /\ rep.json

\* Faulty variant: the detrending is run before the trace extraction.
stage_after_swapped(stage) ==
    CASE stage = "moco" -> "tmean"
      [] stage = "tmean" -> "register"
      [] stage = "register" -> "rois"
      [] stage = "rois" -> "detrend"
      [] stage = "detrend" -> "extract"
      [] stage = "extract" -> "signal_metrics"
      [] stage = "signal_metrics" -> "report"
      [] OTHER -> "metrics"

\* The statement _analyze_and_report and run() go on with after a stage has
\* completed (cbicqc.py lines 246, 252, 256, 260, 264, 268, 271, 318, 181).
stage_after(stage) ==
    CASE stage = "moco" -> "tmean"
      [] stage = "tmean" -> "register"
      [] stage = "register" -> "rois"
      [] stage = "rois" -> "extract"
      [] stage = "extract" -> "detrend"
      [] stage = "detrend" -> "signal_metrics"
      [] stage = "signal_metrics" -> "report"
      [] OTHER -> "metrics"

RunModes == ModeStrings

RunInit ==
    /\ RoiIdle
    /\ PairIdle /\ StepsIdle /\ DetrendIdle /\ ExtractIdle /\ EpitsIdle /\ HtmlIdle
    /\ mode \in RunModes
    /\ meta = [EchoTime |-> 30]
    /\ img_nii = [nt |-> 0, pixdim |-> <<0, 0, 0>>, data |-> <<>>]
    /\ moco_pc = "idle"
    /\ moco_err = "none"
    /\ estimator = "none"
    /\ moco_nii = <<>>
    /\ moco_pars = NoArray
    /\ moco_df = NoTable
    /\ run_pc = "loop"
    /\ run_no = 1
    /\ run_err = "none"
    /\ epits_i = 0
    /\ work_dir = [i \in 1 .. MaxSeries |-> NoFiles]
    /\ report_dir \in [1 .. MaxSeries -> [pdf : BOOLEAN, json : BOOLEAN]]
    /\ fsl_bin \in [mcflirt : BOOLEAN, flirt : BOOLEAN]
    /\ procs = <<>>
    /\ loaded = [i \in 1 .. MaxSeries |-> NotLoaded]
    /\ metric_list = <<>>
    /\ stage_log = <<>>
    /\ template = "none"
    /\ analysed = [i \in 1 .. MaxSeries |-> 0]

run_rest == <<roi_vars, mode, img_nii, moco_pc, moco_err, moco_nii, moco_pars, moco_df,
              pair_vars, frames_done, detrend_vars, extract_vars,
                 epits_vars, html_vars>>

\* run(), loop head for a series whose report PDF and JSON both exist:
\* _analyze_and_report is skipped.
RunSeriesSkip ==
    /\ run_pc = "loop"
    /\ epits_i < MaxSeries
    /\ reports_exist(report_dir[epits_i + 1])
    /\ epits_i' = epits_i + 1
    /\ run_pc' = "metrics"
    /\ estimator' = "none"
    /\ stage_log' = <<>>
    /\ template' = "none"
    /\ UNCHANGED <<run_no, run_err, work_dir, report_dir, fsl_bin, procs, loaded,
                   metric_list, analysed, meta>>
    /\ UNCHANGED run_rest

\* run(), loop head for a series without both report files:
\* _analyze_and_report starts, loads the series and its metadata.
RunSeriesAnalyze ==
    /\ run_pc = "loop"
    /\ epits_i < MaxSeries
    /\ ~reports_exist(report_dir[epits_i + 1])
    /\ epits_i' = epits_i + 1
    /\ run_pc' = "moco"
    /\ \E kind \in SidecarKinds : meta' = load_metadata(kind)
    /\ analysed' = [analysed EXCEPT ![epits_i + 1] = @ + 1]
    /\ estimator' = "none"
    /\ stage_log' = <<>>
    /\ template' = "none"
    /\ UNCHANGED <<run_no, run_err, work_dir, report_dir, fsl_bin, procs, loaded,
                   metric_list>>
    /\ UNCHANGED run_rest

\* A stage of _analyze_and_report has completed: the next statement is
\* reached.
StageCompleted(stage) ==
    /\ run_pc' = stage_after(stage)
    /\ stage_log' = Append(stage_log, stage)

\* A stage raised: the exception leaves _analyze_and_report and run().
StageRaised == run_pc' = "raised" /\ UNCHANGED stage_log

\* Exceptions moco_postprocess can raise at the end of _moco: KeyError on
\* metadata without RepetitionTime, else ValueError or IndexError from calc_fd.
PostErrors(mode_str, meta_dict) ==
    IF "RepetitionTime" \notin DOMAIN meta_dict THEN {"KeyError"}
    ELSE IF IsPhantomPost(mode_str) THEN {"none"}
    ELSE {"none", "ValueError", "IndexError"}

\* _moco in a mode naming 'phantom': moco_phantom works in memory.
RunMocoPhantom ==
    /\ run_pc = "moco"
    /\ InMode("phantom", mode)
    /\ estimator' = "moco_phantom"
    /\ \E e \in PostErrors(mode, meta) :
          /\ run_err' = e
          /\ IF e = "none" THEN StageCompleted("moco") ELSE StageRaised
          /\ loaded' = [loaded EXCEPT ![epits_i].moco = "fresh"]
    /\ UNCHANGED <<run_no, epits_i, work_dir, report_dir, fsl_bin, procs, metric_list,
                   template, analysed, meta>>
    /\ UNCHANGED run_rest

\* _moco in a mode naming 'live' and not 'phantom': moco_live on the files
\* of the work directory, then moco_postprocess.
RunMocoLive ==
    /\ run_pc = "moco"
    /\ ~InMode("phantom", mode)
    /\ InMode("live", mode)
    /\ estimator' = "moco_live"
    /\ \E o \in McflirtOutcomes, e \in PostErrors(mode, meta) :
        \E r \in {moco_live(work_dir[epits_i], fsl_bin.mcflirt, o)} :
          /\ work_dir' = [work_dir EXCEPT ![epits_i] = r.files]
          /\ procs' = procs \o Tagged(r.calls, epits_i)
          /\ loaded' = [loaded EXCEPT ![epits_i].moco = r.moco]
          /\ run_err' = IF r.err # "none" THEN r.err ELSE e
          /\ IF r.err = "none" /\ e = "none" THEN StageCompleted("moco") ELSE StageRaised
    /\ UNCHANGED <<run_no, epits_i, report_dir, fsl_bin, metric_list, template,
                   analysed, meta>>
    /\ UNCHANGED run_rest

\* _moco in a mode naming neither: sys.exit(1).
RunMocoExit ==
    /\ run_pc = "moco"
    /\ ~InMode("phantom", mode)
    /\ ~InMode("live", mode)
    /\ run_pc' = "exit"
    /\ UNCHANGED <<run_no, run_err, epits_i, work_dir, report_dir, fsl_bin, procs,
                   loaded, metric_list, stage_log, template, analysed, meta, estimator>>
    /\ UNCHANGED run_rest

\* What a stage that works in memory leaves alone.
stage_rest == <<run_no, epits_i, work_dir, report_dir, fsl_bin, procs,
                loaded, metric_list, template, analysed, meta, estimator>>

\* tmean_nii, tsd_nii, tsfnr_nii = temporal_mean_sd(epits_moco_nii): it
\* completes, or it raises.
RunTemporalMean ==
    /\ run_pc = "tmean"
    /\ \E ok \in BOOLEAN :
          /\ run_err' = IF ok THEN "none" ELSE "Exception"
          /\ IF ok THEN StageCompleted("tmean") ELSE StageRaised
    /\ UNCHANGED stage_rest
    /\ UNCHANGED run_rest

\* labels_nii = register_template(tmean_nii, self._epits_work_dir, mode)
RunRegister ==
    /\ run_pc = "register"
    /\ template' = template_for(mode)
    /\ \E reg_ok \in BOOLEAN, apply_ok \in BOOLEAN :
        \E r \in {register_template(work_dir[epits_i], fsl_bin.flirt, reg_ok, apply_ok)} :
          /\ work_dir' = [work_dir EXCEPT ![epits_i] = r.files]
          /\ procs' = procs \o Tagged(r.calls, epits_i)
          /\ loaded' = [loaded EXCEPT ![epits_i].labels = r.labels]
          /\ run_err' = r.err
          /\ IF r.err = "none" THEN StageCompleted("register") ELSE StageRaised
    /\ UNCHANGED <<run_no, epits_i, report_dir, fsl_bin, metric_list, analysed, meta,
                   estimator>>
    /\ UNCHANGED run_rest

\* rois_nii = make_rois(labels_nii): no check is made, nothing is raised.
RunMakeRois ==
    /\ run_pc = "rois"
    /\ StageCompleted("rois")
    /\ UNCHANGED <<run_no, run_err, epits_i, work_dir, report_dir, fsl_bin, procs,
                   loaded, metric_list, template, analysed, meta, estimator>>
    /\ UNCHANGED run_rest

\* s_mean_t = extract_timeseries(epits_moco_nii, rois_nii)
RunExtract ==
    /\ run_pc = "extract"
    /\ \E ok \in BOOLEAN :
          /\ run_err' = IF ok THEN "none" ELSE "Exception"
          /\ IF ok THEN StageCompleted("extract") ELSE StageRaised
    /\ UNCHANGED stage_rest
    /\ UNCHANGED run_rest

\* fit_results, s_detrend_t, s_fit_t = detrend_timeseries(s_mean_t)
RunDetrend ==
    /\ run_pc = "detrend"
    /\ \E ok \in BOOLEAN :
          /\ run_err' = IF ok THEN "none" ELSE "Exception"
          /\ IF ok THEN StageCompleted("detrend") ELSE StageRaised
    /\ UNCHANGED stage_rest
    /\ UNCHANGED run_rest

\* metrics = signal_metrics(...), updated with moco_metrics(...) and meta
RunSignalMetrics ==
    /\ run_pc = "signal_metrics"
    /\ \E ok \in BOOLEAN :
          /\ run_err' = IF ok THEN "none" ELSE "Exception"
          /\ IF ok THEN StageCompleted("signal_metrics") ELSE StageRaised
    /\ UNCHANGED stage_rest
    /\ UNCHANGED run_rest

\* ReportPDF: the document is built into the file fnames['ReportPDF']; the
\* file fnames['ReportJSON'] is not written.
ReportPDF(rep) == [rep EXCEPT !.pdf = TRUE]

\* The end of _analyze_and_report: the report images, the intermediate
\* images and ReportPDF; one of them raises, or the report is built.
RunReport ==
    /\ run_pc = "report"
    /\ \E ok \in BOOLEAN :
          /\ report_dir' = IF ok THEN [report_dir EXCEPT ![epits_i] = ReportPDF(@)]
                           ELSE report_dir
          /\ run_err' = IF ok THEN "none" ELSE "Exception"
          /\ IF ok THEN StageCompleted("report") ELSE StageRaised
    /\ UNCHANGED <<run_no, epits_i, work_dir, fsl_bin, procs, loaded, metric_list,
                   template, analysed, meta, estimator>>
    /\ UNCHANGED run_rest

\* metric_list.append(self._get_metrics()): the report JSON of the series
\* is opened and loaded.
RunGetMetrics ==
    /\ run_pc = "metrics"
    /\ report_dir[epits_i].json
    /\ metric_list' = Append(metric_list, epits_i)
    /\ run_pc' = "loop"
    /\ UNCHANGED <<run_no, run_err, epits_i, work_dir, report_dir, fsl_bin, procs,
                   loaded, stage_log, template, analysed, meta, estimator>>
    /\ UNCHANGED run_rest

\* _get_metrics with no report JSON: open() raises FileNotFoundError.
RunGetMetricsNoJson ==
    /\ run_pc = "metrics"
    /\ ~report_dir[epits_i].json
    /\ run_pc' = "raised"
    /\ run_err' = "FileNotFoundError"
    /\ UNCHANGED <<run_no, epits_i, work_dir, report_dir, fsl_bin, procs,
                   loaded, metric_list, stage_log, template, analysed, meta, estimator>>
    /\ UNCHANGED run_rest

\* The loop is over: summary, self.cleanup(retain=True) keeps the work
\* directory.
RunFinish ==
    /\ run_pc = "loop"
    /\ epits_i = MaxSeries
    /\ run_pc' = "done"
    /\ UNCHANGED <<run_no, run_err, epits_i, work_dir, report_dir, fsl_bin, procs,
                   loaded, metric_list, stage_log, template, analysed, meta, estimator>>
    /\ UNCHANGED run_rest

\* A file of the work directory as a later run finds it.
LeftBehind(tag) == IF tag = "absent" THEN "absent" ELSE "stale"

\* A later run of CBICQC.run on the same dataset: the files of the work and
\* report directories are those the earlier run left.
RunAgain ==
    /\ run_pc \in {"done", "raised", "exit"}
    /\ run_no < MaxRuns
    /\ run_no' = run_no + 1
    /\ run_pc' = "loop"
    /\ run_err' = "none"
    /\ epits_i' = 0
    /\ work_dir' = [i \in 1 .. MaxSeries |->
                      [f \in DOMAIN NoFiles |-> LeftBehind(work_dir[i][f])]]
    /\ fsl_bin' \in [mcflirt : BOOLEAN, flirt : BOOLEAN]
    /\ procs' = <<>>
    /\ loaded' = [i \in 1 .. MaxSeries |-> NotLoaded]
    /\ metric_list' = <<>>
    /\ stage_log' = <<>>
    /\ template' = "none"
    /\ analysed' = [i \in 1 .. MaxSeries |-> 0]
    /\ estimator' = "none"
    /\ meta' = [EchoTime |-> 30]
    /\ UNCHANGED report_dir
    /\ UNCHANGED run_rest

RunNext ==
    \/ RunSeriesSkip \/ RunSeriesAnalyze
    \/ RunMocoPhantom \/ RunMocoLive \/ RunMocoExit
    \/ RunTemporalMean \/ RunRegister \/ RunMakeRois \/ RunExtract \/ RunDetrend
    \/ RunSignalMetrics \/ RunReport \/ RunGetMetrics \/ RunGetMetricsNoJson
    \/ RunFinish \/ RunAgain

SpecRun == RunInit /\ [][RunNext]_vars

(***************************************************************************)
(* Claims about the run loop and the external tools                        *)
(***************************************************************************)

\* Entries of procs that belong to series i.
ProcsOf(i) == { k \in 1 .. Len(procs) : procs[k].series = i }

\* The external motion-correction tool failed for series i in this run: it
\* was not found, or it exited non-zero.
McflirtFailed(i) ==
    \E k \in ProcsOf(i) : procs[k].tool = "mcflirt" /\ procs[k].exit # "0"

\* C11: in live mode, when the external motion-correction tool fails for a
\* series (non-zero exit, binary missing, output missing), only that series
\* is given up: the run is not ended by an exception at that series, and no
\* motion-corrected volume is loaded for it, neither one the failed call left
\* nor one found in the work directory.
C11_ToolFailureSkipsSeries ==
    \A i \in 1 .. MaxSeries :
        (InMode("live", mode) /\ ~InMode("phantom", mode) /\ run_pc # "idle"
            /\ McflirtFailed(i)) =>
            /\ loaded[i].moco = "none"
            /\ ~(run_pc = "raised" /\ epits_i = i)

\* C12: in register_template a non-zero exit of the template registration is
\* fatal for the series: the label resampling is not run after it and no
\* label volume is loaded.
C12_RegistrationFailureFatal ==
    \A k \in 1 .. Len(procs) :
        (procs[k].tool = "flirt" /\ procs[k].exit = "1") =>
            /\ \A j \in ProcsOf(procs[k].series) :
                  j > k => procs[j].tool # "flirt_applyxfm"
            /\ loaded[procs[k].series].labels = "none"

\* C13: a run never loads a motion-corrected series or a label volume that an
\* earlier, failed analysis of the series left in the work directory, nor one
\* computed from such a file: after a fatal condition nothing remains that a
\* later run takes for the output of a completed step.
C13_NoReusableLeftovers ==
    run_pc # "idle" =>
        \A i \in 1 .. MaxSeries :
            /\ loaded[i].moco \in {"none", "fresh"}
            /\ loaded[i].labels \in {"none", "fresh"}

\* C14: in a phantom-mode run no external registration process runs between
\* the temporal mean and the ROI labels.
C14_PhantomNoExternalProcess ==
    (run_pc # "idle" /\ InMode("phantom", mode)) =>
        \A k \in 1 .. Len(procs) :
            ~(procs[k].tool \in {"flirt", "flirt_applyxfm"} /\ procs[k].exit # "not_found")

(***************************************************************************)
(* moco_phantom on two series, and the passes of its loop in any order     *)
(***************************************************************************)

\* Intensities of the series of this section: no frame is empty.
PositiveIntensities == {1, 2}

\* Series of 1 .. MaxT frames of positive intensities.
IsPositiveInput(nii) ==
    \E sh \in ImgShapes, nt \in 1 .. MaxT, px \in VoxSizes :
        \E d \in [0 .. nt - 1 -> [Voxels(sh) -> PositiveIntensities]] :
            nii = [nt |-> nt, pixdim |-> px, data |-> d]

\* Two series of the same shape and voxel size: b is a with frame k >= 1
\* replaced by the frame f.
IsInputPair(a, b) ==
    /\ IsPositiveInput(a)
    /\ a.nt >= 2
    /\ \E k \in 1 .. a.nt - 1 :
        \E f \in [DOMAIN a.data[0] -> PositiveIntensities] :
            b = [a EXCEPT !.data[k] = f]

PairInit ==
    /\ RoiIdle
    /\ StepsIdle /\ RunIdle /\ DetrendIdle /\ ExtractIdle /\ EpitsIdle /\ HtmlIdle
    /\ IsInputPair(img_nii, img_b)
    /\ moco_b = [moco_img |-> <<>>, moco_pars |-> NoArray]
    /\ mode = <<"phantom">>
    /\ meta = [EchoTime |-> 30]
    /\ moco_pc = "start"
    /\ moco_err = "none"
    /\ estimator = "none"
    /\ moco_nii = <<>>
    /\ moco_pars = NoArray
    /\ moco_df = NoTable

\* moco_phantom(img_nii) and, in a call of its own, moco_phantom(img_b).
MocoPhantomPair ==
    /\ moco_pc = "start"
    /\ \E r \in {moco_phantom(img_nii)} :
          /\ moco_nii' = r.moco_img
          /\ moco_pars' = r.moco_pars
    /\ moco_b' = moco_phantom(img_b)
    /\ moco_pc' = "returned"
    /\ estimator' = "moco_phantom"
    /\ UNCHANGED <<mode, meta, img_nii, moco_err, moco_df, img_b>>
    /\ UNCHANGED <<roi_vars, frames_done, run_vars, detrend_vars, extract_vars,
                 epits_vars, html_vars>>

PairNext == MocoPhantomPair

SpecPair == PairInit /\ [][PairNext]_vars

\* moco_phantom up to its loop: moco_img = img.copy(), moco_pars = zeros.
StepsInit ==
    /\ RoiIdle
    /\ PairIdle /\ RunIdle /\ DetrendIdle /\ ExtractIdle /\ EpitsIdle /\ HtmlIdle
    /\ IsPositiveInput(img_nii)
    /\ mode = <<"phantom">>
    /\ meta = [EchoTime |-> 30]
    /\ moco_pc = "loop"
    /\ moco_err = "none"
    /\ estimator = "moco_phantom"
    /\ moco_nii = [t \in 0 .. img_nii.nt - 1 |-> Raw(img_nii.data[t])]
    /\ moco_pars = zeros_nt6(img_nii.nt)
    /\ moco_df = NoTable
    /\ frames_done = {}

\* Frames the loop of moco_phantom visits.
LoopFrames(nt) == LoopStart .. nt - 1

\* The pass of the loop body for a frame tc not yet visited, whichever it is.
PhantomStep ==
    /\ moco_pc = "loop"
    /\ \E tc \in LoopFrames(img_nii.nt) \ frames_done :
        \E st \in {phantom_step([moco_img |-> moco_nii, moco_pars |-> moco_pars],
                                img_nii.data, img_clip(img_nii.data, img_nii.nt),
                                img_nii.pixdim, tc)} :
          /\ moco_nii' = st.moco_img
          /\ moco_pars' = st.moco_pars
          /\ frames_done' = frames_done \cup {tc}
    /\ UNCHANGED <<mode, meta, img_nii, moco_pc, moco_err, estimator, moco_df>>
    /\ UNCHANGED <<roi_vars, pair_vars, run_vars, detrend_vars, extract_vars,
                 epits_vars, html_vars>>

\* Every frame was visited: moco_phantom returns.
PhantomStepsReturn ==
    /\ moco_pc = "loop"
    /\ frames_done = LoopFrames(img_nii.nt)
    /\ moco_pc' = "returned"
    /\ UNCHANGED <<mode, meta, img_nii, moco_err, estimator, moco_nii, moco_pars,
                   moco_df, frames_done>>
    /\ UNCHANGED <<roi_vars, pair_vars, run_vars, detrend_vars, extract_vars,
                 epits_vars, html_vars>>

StepsNext == PhantomStep \/ PhantomStepsReturn

SpecSteps == StepsInit /\ [][StepsNext]_vars

(***************************************************************************)
(* Claims about the frames of moco_phantom                                 *)
(***************************************************************************)

\* Record t and corrected frame t are the same for img_nii and img_b.
SameResultAt(t) ==
    /\ moco_pars.rows[t] = moco_b.moco_pars.rows[t]
    /\ moco_nii[t] = moco_b.moco_img[t]

\* The two series agree on frame 0 and on frame t.
AgreeAt(t) ==
    /\ img_nii.data[0] = img_b.data[0]
    /\ img_nii.data[t] = img_b.data[t]

\* C15 as stated: two series that agree on frame 0 and on frame t, whatever
\* their other frames, get the same record t and the same corrected frame t.
C15_FrameLocal ==
    moco_pc = "returned" =>
        \A t \in 0 .. img_nii.nt - 1 : AgreeAt(t) => SameResultAt(t)

\* C15: two series of the same voxel size that agree on frame 0 and on
\* frame t and have the same 1st and 99th percentile over the whole series
\* get the same record t and the same corrected frame t.
C15_FrameLocalGivenPercentiles ==
    moco_pc = "returned" =>
        \A t \in 0 .. img_nii.nt - 1 :
            (AgreeAt(t) /\ percentile_1_99(img_nii.data, img_nii.nt)
                             = percentile_1_99(img_b.data, img_b.nt))
                => SameResultAt(t)

\* C15 witness: two different series with the same percentiles that agree on
\* frame 0 and on a frame t that is translated.
C15_Witness ==
    /\ moco_pc = "returned"
    /\ img_nii # img_b
    /\ percentile_1_99(img_nii.data, img_nii.nt) = percentile_1_99(img_b.data, img_b.nt)
    /\ \E t \in 1 .. img_nii.nt - 1 :
          /\ AgreeAt(t)
          /\ SameResultAt(t)
          /\ \E c \in 4 .. 6 : moco_pars.rows[t][c] # Zero

\* C16: whatever the order of the passes of the loop, a visited frame holds
\* the corrected frame and the record the sequential loop gives it, a frame
\* not yet visited holds the copied frame and a zero record, and the arrays
\* returned are those of the sequential loop.
C16_AnySchedule ==
    moco_pc \in {"loop", "returned"} =>
        LET seq == moco_phantom(img_nii)
        IN  /\ \A t \in 0 .. img_nii.nt - 1 :
                  IF t \in frames_done
                  THEN /\ moco_nii[t] = seq.moco_img[t]
                       /\ moco_pars.rows[t] = seq.moco_pars.rows[t]
                  ELSE /\ moco_nii[t] = Raw(img_nii.data[t])
                       /\ moco_pars.rows[t] = ZeroRow
            /\ moco_pc = "returned" =>
                  (moco_nii = seq.moco_img /\ moco_pars = seq.moco_pars)

\* C16 witness: the last frame was visited before the frame ahead of it, and
\* both frames are translated in the sequential result.
C16_Witness ==
    /\ moco_pc = "loop"
    /\ img_nii.nt >= 3
    /\ frames_done = {img_nii.nt - 1}
    /\ \E c \in 4 .. 6 : moco_pars.rows[img_nii.nt - 1][c] # Zero
    /\ \E c \in 4 .. 6 : moco_phantom(img_nii).moco_pars.rows[img_nii.nt - 2][c] # Zero

(***************************************************************************)
(* cbicqa_detrend.py: main                                                 *)
(***************************************************************************)

\* Largest number of volumes of a QA timeseries file.
MaxNv == 7

\* Columns of qa_timeseries.txt: phantom, nyquist, noise.
NumRois == 3

\* Traces and residuals are sequences indexed 1 .. nv; entry k belongs to
\* volume v = k - 1.

\* Number of entries of a sequence that are <= x.
SeqCountLeq(s, x) == Cardinality({ k \in DOMAIN s : s[k] <= x })

\* k-th smallest entry (1-based) of a non-empty sequence.
SeqSorted(s, k) ==
    CHOOSE x \in { s[i] : i \in DOMAIN s } :
        /\ SeqCountLeq(s, x) >= k
        /\ \A y \in { s[i] : i \in DOMAIN s } : SeqCountLeq(s, y) >= k => x <= y

\* Twice np.median(s): the middle entry, or the mean of the two middle ones.
Median2(s) ==
    LET n == Len(s)
    IN  IF n % 2 = 1 THEN 2 * SeqSorted(s, (n + 1) \div 2)
        ELSE SeqSorted(s, n \div 2) + SeqSorted(s, n \div 2 + 1)

\* np.abs of a sequence
SeqAbs(s) == [k \in DOMAIN s |-> IAbs(s[k])]

\* expconst(t, a, tau, b, c) = a * exp(-t / tau) + b * t + c, for the fits
\* of amplitude a = 0 the model draws: the exponential term is 0.
expconst(t, opt) == opt.b * t + opt.c

\* Parameter vectors curve_fit may return.
FitOpts == { [a |-> 0, tau |-> 1, b |-> b, c |-> c] : b \in {0, 1}, c \in {10, 11} }

NoOpt == [a |-> 0, tau |-> 0, b |-> 0, c |-> 0]

\* Sum of w(k) * s[k] over a sequence, w = 1 or the volume number.
RECURSIVE SeqDot(_, _, _)
SeqDot(s, k, by_volume) ==
    IF k > Len(s) THEN 0
    ELSE (IF by_volume THEN k - 1 ELSE 1) * s[k] + SeqDot(s, k + 1, by_volume)

\* trace - expconst(v, *opt)
Residual(trace, opt) == [k \in DOMAIN trace |-> trace[k] - expconst(k - 1, opt)]

\* curve_fit(expconst, v, trace): the parameter vectors at which the sum of
\* the squared residuals is stationary in the slope and the constant.
curve_fit(trace) ==
    { opt \in FitOpts :
        /\ SeqDot(Residual(trace, opt), 1, FALSE) = 0
        /\ SeqDot(Residual(trace, opt), 1, TRUE) = 0 }

\* np.median(np.abs(res)) * 1.4826, a rational
res_sd(res) == Rat(Median2(SeqAbs(res)) * 7413, 10000)

\* Faulty variant: residuals at the threshold count as spikes.
IsSpike_inclusive(r, sd) == IAbs(r) * sd[2] >= 5 * sd[1]

\* np.abs(r) > 5 * sd
IsSpike(r, sd) == IAbs(r) * sd[2] > 5 * sd[1]

\* (np.abs(res) > 5 * res_sd).sum()
RECURSIVE count_spikes(_, _, _)
count_spikes(res, sd, k) ==
    IF k > Len(res) THEN 0
    ELSE (IF IsSpike(res[k], sd) THEN 1 ELSE 0) + count_spikes(res, sd, k + 1)

NoFit == [status |-> "not_run", opt |-> NoOpt, res |-> <<>>, res_sd |-> Zero,
          spikes |-> 0, detrended |-> <<>>]

\* Lines 57-87 of main for one column: fitted curve, residuals, robust sd,
\* spike count, detrended column.
FitResult(trace, opt) ==
    LET res == Residual(trace, opt)
        sd == res_sd(res)
    IN  [status |-> "fitted", opt |-> opt, res |-> res, res_sd |-> sd,
         spikes |-> count_spikes(res, sd, 1),
         detrended |-> [k \in DOMAIN res |-> res[k] + opt.c]]

NoQaFiles == [detrend |-> <<>>, pars |-> <<>>, png |-> FALSE]

\* A residual with three non-zero volumes i, i+1, i+2 that a straight line
\* cannot absorb: 1, -2, 1.
SecondDiff(nv, i) ==
    [k \in 1 .. nv |-> IF k - 1 = i \/ k - 1 = i + 2 THEN 1
                       ELSE IF k - 1 = i + 1 THEN -2 ELSE 0]

\* Departures of the drawn traces from a straight line: none, one of the
\* above (also 8 times as large), or two of them.
ResidualShapes(nv) ==
    { [k \in 1 .. nv |-> 0] } \cup
    { [k \in 1 .. nv |-> k1 * SecondDiff(nv, i)[k] + k2 * SecondDiff(nv, j)[k]]
        : i \in 0 .. nv - 3, j \in 0 .. nv - 3, k1 \in {0, 1, 8}, k2 \in {0, 1} }

\* Departures drawn for the nyquist and noise columns.
FewResidualShapes(nv) ==
    { [k \in 1 .. nv |-> 0] } \cup { SecondDiff(nv, i) : i \in {0} \cap (0 .. nv - 3) }

\* A column of qa_timeseries.txt: baseline 10, slope b, departure r.
Trace(nv, b, r) == [k \in 1 .. nv |-> b * (k - 1) + 10 + r[k]]

NoQaTs == [exists |-> FALSE, nv |-> 0, x |-> <<>>]

\* qa_timeseries.txt: missing, or three columns of 1 .. MaxNv volumes.
IsQaInput(ts) ==
    \/ ts = NoQaTs
    \/ \E nv \in 1 .. MaxNv, b \in {0, 1} :
         \E r1 \in ResidualShapes(nv), r2 \in FewResidualShapes(nv),
            r3 \in FewResidualShapes(nv) :
              ts = [exists |-> TRUE, nv |-> nv,
                    x |-> << Trace(nv, b, r1), Trace(nv, 0, r2), Trace(nv, b, r3) >>]

DetrendInit ==
    /\ RoiIdle /\ MocoIdle
    /\ PairIdle /\ StepsIdle /\ RunIdle /\ ExtractIdle /\ EpitsIdle /\ HtmlIdle
    /\ IsQaInput(qa_ts)
    /\ detrend_pc = "start"
    /\ detrend_err = "none"
    /\ fit_res = [r \in 1 .. NumRois |-> NoFit]
    /\ qa_files = NoQaFiles

detrend_rest == <<roi_vars, moco_vars, pair_vars, frames_done, run_vars, extract_vars,
                 epits_vars, html_vars>>

\* qa_timeseries.txt does not exist: sys.exit(0).
DetrendNoFile ==
    /\ detrend_pc = "start"
    /\ ~qa_ts.exists
    /\ detrend_pc' = "exit"
    /\ UNCHANGED <<qa_ts, detrend_err, fit_res, qa_files>>
    /\ UNCHANGED detrend_rest

\* A file of one line loads as a 1-D array: x[:,0] raises IndexError.  With
\* fewer volumes than parameters curve_fit raises TypeError.
DetrendTooShort ==
    /\ detrend_pc = "start"
    /\ qa_ts.exists
    /\ qa_ts.nv < 4
    /\ detrend_pc' = "raised"
    /\ detrend_err' = IF qa_ts.nv = 1 THEN "IndexError" ELSE "TypeError"
    /\ UNCHANGED <<qa_ts, fit_res, qa_files>>
    /\ UNCHANGED detrend_rest

\* curve_fit does not converge for column r (RuntimeError), the columns
\* before it were fitted: the exception leaves main.
DetrendFitDiverges ==
    /\ detrend_pc = "start"
    /\ qa_ts.exists
    /\ qa_ts.nv >= 4
    /\ \E r \in 1 .. NumRois :
          /\ \A q \in 1 .. r - 1 : curve_fit(qa_ts.x[q]) # {}
          /\ fit_res' = [q \in 1 .. NumRois |->
                           IF q < r
                           THEN [NoFit EXCEPT !.status = "opt_only",
                                              !.opt = CHOOSE o \in curve_fit(qa_ts.x[q]) : TRUE]
                           ELSE IF q = r THEN [NoFit EXCEPT !.status = "failed"]
                           ELSE NoFit]
    /\ detrend_pc' = "raised"
    /\ detrend_err' = "RuntimeError"
    /\ UNCHANGED <<qa_ts, qa_files>>
    /\ UNCHANGED detrend_rest

\* The three fits converge: residuals, robust sd, spike counts, detrended
\* columns; the two text files and the figure are written.
DetrendMain ==
    /\ detrend_pc = "start"
    /\ qa_ts.exists
    /\ qa_ts.nv >= 4
    /\ \A r \in 1 .. NumRois : curve_fit(qa_ts.x[r]) # {}
    /\ \E opts \in [1 .. NumRois -> FitOpts] :
          /\ \A r \in 1 .. NumRois : opts[r] \in curve_fit(qa_ts.x[r])
          /\ fit_res' = [r \in 1 .. NumRois |-> FitResult(qa_ts.x[r], opts[r])]
    /\ qa_files' = [detrend |-> [r \in 1 .. NumRois |-> fit_res'[r].detrended],
                    pars |-> [r \in 1 .. NumRois |->
                                [opt |-> fit_res'[r].opt, res_sd |-> fit_res'[r].res_sd,
                                 spikes |-> fit_res'[r].spikes]],
                    png |-> TRUE]
    /\ detrend_pc' = "done"
    /\ UNCHANGED <<qa_ts, detrend_err>>
    /\ UNCHANGED detrend_rest

DetrendNext == DetrendNoFile \/ DetrendTooShort \/ DetrendFitDiverges \/ DetrendMain

SpecDetrend == DetrendInit /\ [][DetrendNext]_vars

(***************************************************************************)
(* Claims about cbicqa_detrend.py                                          *)
(***************************************************************************)

\* C17: after main, each column has one residual per volume, and its spike
\* count is the number of volumes whose residual is, in absolute value,
\* strictly greater than 5 times the noise scale of the column.
C17_ResidualsAndSpikes ==
    detrend_pc = "done" =>
        \A r \in 1 .. NumRois :
            /\ Len(fit_res[r].res) = qa_ts.nv
            /\ Len(qa_ts.x[r]) = qa_ts.nv
            /\ fit_res[r].spikes =
                  Cardinality({ k \in 1 .. qa_ts.nv :
                      IAbs(fit_res[r].res[k]) * fit_res[r].res_sd[2]
                          > 5 * fit_res[r].res_sd[1] })

\* C17 witness: a column with a positive noise scale in which some volumes,
\* not all, are spikes.
C17_Witness ==
    /\ detrend_pc = "done"
    /\ \E r \in 1 .. NumRois :
          /\ fit_res[r].res_sd[1] > 0
          /\ fit_res[r].spikes >= 1
          /\ fit_res[r].spikes < qa_ts.nv

\* Four times the median absolute deviation of a sequence:
\* median(|s - median(s)|).
Mad4(s) == Median2([k \in DOMAIN s |-> IAbs(2 * s[k] - Median2(s))])

\* C18: the noise scale of each column is the median absolute deviation of
\* its residuals, median(|res - median(res)|), times 1.4826.
C18_ScaleIsMad ==
    detrend_pc = "done" =>
        \A r \in 1 .. NumRois :
            fit_res[r].res_sd = Rat(Mad4(fit_res[r].res) * 7413, 40000)

\* C19: when the fit of one column does not converge, the other columns are
\* still fitted and the outputs are still written.
C19_FitFailureIsLocal ==
    \A r \in 1 .. NumRois :
        (detrend_pc # "idle" /\ fit_res[r].status = "failed") =>
            /\ \A q \in (1 .. NumRois) \ {r} : fit_res[q].status = "fitted"
            /\ qa_files.pars # <<>>
            /\ qa_files.detrend # <<>>

(***************************************************************************)
(* extract_timeseries (cbicqc/timeseries.py)                               *)
(***************************************************************************)

\* extract_timeseries(qc_moco, roi_labels): return []
extract_timeseries(qc_moco, roi_labels) == << >>

\* Shapes of the volumes given to the extractor.
ExtractShapes == { <<1, 2, 1>>, <<2, 1, 1>>, <<1, 3, 1>> }

\* Numbers of frames of the series given to the extractor.
ExtractLens == {1, 2}

\* What _analyze_and_report hands to the extractor in phantom mode: the
\* series moco_phantom returned (here for a series whose frames are all the
\* same, so that no frame is resampled) and the ROI volume make_rois built
\* from a label volume of the same shape.
ExtractInit ==
    /\ PairIdle /\ StepsIdle /\ RunIdle /\ DetrendIdle /\ EpitsIdle /\ HtmlIdle
    /\ mode = <<"phantom">>
    /\ meta = [EchoTime |-> 30, RepetitionTime |-> 2000]
    /\ \E sh \in ExtractShapes :
          /\ \E d \in [Voxels(sh) -> 0 .. SignalLabel] :
                /\ labels_nii = [shape |-> sh, data |-> d]
                /\ rois_nii = make_rois(labels_nii)
          /\ \E nt \in ExtractLens, px \in VoxSizes :
                \E f \in [Voxels(sh) -> PositiveIntensities] :
                    img_nii = [nt |-> nt, pixdim |-> px, data |-> [t \in 0 .. nt - 1 |-> f]]
    /\ roi_pc = "returned"
    /\ \E r \in {moco_phantom(img_nii)} :
          /\ moco_nii = r.moco_img
          /\ moco_pars = r.moco_pars
          /\ moco_df = moco_postprocess(r.moco_pars, meta, mode).df
    /\ moco_pc = "returned"
    /\ moco_err = "none"
    /\ estimator = "moco_phantom"
    /\ s_mean_t = <<>>
    /\ extract_pc = "start"

\* s_mean_t = extract_timeseries(epits_moco_nii, rois_nii)
ExtractTimeseries ==
    /\ extract_pc = "start"
    /\ s_mean_t' = extract_timeseries(moco_nii, rois_nii)
    /\ extract_pc' = "returned"
    /\ UNCHANGED <<roi_vars, moco_vars, pair_vars, frames_done, run_vars, detrend_vars,
                   epits_vars, html_vars>>

ExtractNext == ExtractTimeseries

SpecExtract == ExtractInit /\ [][ExtractNext]_vars

(***************************************************************************)
(* Claims about extract_timeseries                                         *)
(***************************************************************************)

\* Sum of a frame over a set of voxels.
RECURSIVE SumOver(_, _)
SumOver(frame, vs) ==
    IF vs = {} THEN 0
    ELSE LET v == CHOOSE u \in vs : TRUE
         IN  frame[v] + SumOver(frame, vs \ {v})

\* Arithmetic mean of frame t of the motion-corrected series over the voxels
\* of ROI category c (NaN over no voxel).
RoiMean(c, t) ==
    Rat(SumOver(moco_nii[t].input, RoiSet(rois_nii, c)), Cardinality(RoiSet(rois_nii, c)))

\* C20: the extractor returns one trace for each of the three defined
\* categories (air 1, ghost 2, signal 3), each of T values, value t of
\* category c being the mean of frame t over the voxels labelled c; the
\* voxels of category 0 enter no trace.
C20_TracesAreRoiMeans ==
    extract_pc = "returned" =>
        /\ Len(s_mean_t) = 3
        /\ \A c \in 1 .. 3 :
              /\ Len(s_mean_t[c]) = img_nii.nt
              /\ \A t \in 0 .. img_nii.nt - 1 : s_mean_t[c][t + 1] = RoiMean(c, t)

(***************************************************************************)
(* Claims C22, C29 (make_rois, checked under SpecRois)                     *)
(***************************************************************************)

\* The voxel the half-FOV roll of make_rois moves onto v.
RollSource(v, ny) == <<v[1], (v[2] - (ny \div 2)) % ny, v[3]>>

\* C22: the ghost mask produced by make_rois is the signal mask circularly
\* rolled by half the second axis and restricted to voxels outside the buffer
\* mask: voxel (x,y,z) is ghost iff (x,(y - floor(ny/2)) mod ny, z) is signal
\* and the template label at (x,y,z) is 0.
C22_GhostIsRolledSignal ==
    roi_pc = "returned" =>
        \A v \in Voxels(labels_nii.shape) :
            rois_nii.data[v] = 2 <=>
                /\ labels_nii.data[RollSource(v, labels_nii.shape[2])] > 1
                /\ labels_nii.data[v] = 0

\* C22 witness: a ghost voxel whose signal source lies across the edge of the
\* second axis, so that only a circular roll reaches it.
C22_Witness ==
    /\ roi_pc = "returned"
    /\ \E v \in Voxels(labels_nii.shape) :
          /\ rois_nii.data[v] = 2
          /\ v[2] - (labels_nii.shape[2] \div 2) < 0

\* The mask arithmetic of make_rois carried out in unbounded integers.
UnwrappedMasks(v) ==
    LET m == roi_masks(labels_nii)
        inv == 1 - m.buffer[v]
        ghost == m.nyquist[v] * inv
        air == inv - ghost
    IN  <<inv, ghost, air, air + 2 * ghost + 3 * m.signal[v]>>

\* C29: air and ghost voxels of make_rois occur only where the template label
\* is 0, every voxel of the padding buffer (label >= 1 but not signal) gets
\* ROI value 0, and every ROI value lies in 0..3 with no unsigned wrap-around
\* in the mask arithmetic.
C29_PaddingUndefined ==
    roi_pc = "returned" =>
        \A v \in Voxels(labels_nii.shape) :
            /\ rois_nii.data[v] \in {1, 2} => labels_nii.data[v] = 0
            /\ (labels_nii.data[v] >= 1 /\ ~(labels_nii.data[v] > 1))
                  => rois_nii.data[v] = 0
            /\ rois_nii.data[v] \in 0 .. 3
            /\ \A k \in 1 .. 4 : UnwrappedMasks(v)[k] \in 0 .. 255
            /\ rois_nii.data[v] = UnwrappedMasks(v)[4]

\* C29 witness: a padding voxel onto which the roll moves signal, next to
\* air and ghost voxels in the same volume.
C29_Witness ==
    /\ roi_pc = "returned"
    /\ RoiSet(rois_nii, 1) # {}
    /\ RoiSet(rois_nii, 2) # {}
    /\ \E v \in Voxels(labels_nii.shape) :
          /\ labels_nii.data[v] = 1
          /\ roi_masks(labels_nii).nyquist[v] = 1

(***************************************************************************)
(* Claim C26 (_moco and moco_postprocess, checked under SpecMoco)          *)
(***************************************************************************)

\* The returned table is the one of the phantom branch of moco_postprocess:
\* FD and filtered FD not calculated, both columns zero.
PostTreatedAsPhantom ==
    /\ \A t \in DOMAIN moco_df.FD_mm : moco_df.FD_mm[t] = Zero
    /\ moco_df.FD_LPF_mm.op = "zeros"

\* C26: for every mode string, moco_postprocess treats the run as phantom
\* (FD and filtered FD set to zero, not calculated) exactly when _moco ran
\* the phantom centre-of-mass estimator; the two decisions never disagree
\* within one run.
C26_PostprocessFollowsEstimator ==
    moco_pc = "returned" =>
        /\ (estimator = "moco_phantom") <=> IsPhantomPost(mode)
        /\ (estimator = "moco_phantom") <=> PostTreatedAsPhantom

(***************************************************************************)
(* Series discovery: CBICQC._get_epits_list (cbicqc/cbicqc.py).  A path is *)
(* the sequence of its components, a component the sequence of its pieces; *)
(* a pattern has the same form with "*" for the wildcard.                  *)
(***************************************************************************)

\* fnmatch of one path component: "*" matches any run of pieces, every other
\* piece matches itself.
RECURSIVE fnmatch(_, _)
fnmatch(name, pat) ==
    IF pat = <<>> THEN name = <<>>
    ELSE IF Head(pat) = "*"
         THEN \/ fnmatch(name, Tail(pat))
              \/ name # <<>> /\ fnmatch(Tail(name), pat)
         ELSE name # <<>> /\ Head(name) = Head(pat) /\ fnmatch(Tail(name), Tail(pat))

\* glob(pathname) without recursive=True: the paths of the dataset with as
\* many components as the pattern, each component matching.
glob(files, pattern) ==
    { f \in files :
        /\ Len(f) = Len(pattern)
        /\ \A k \in 1 .. Len(pattern) : fnmatch(f[k], pattern[k]) }

\* Directories of the func folder of a subject, with or without a session.
FuncDir(with_ses) ==
    IF with_ses THEN << <<"sub-", "01">>, <<"ses-", "1">>, <<"func">> >>
    ELSE << <<"sub-", "01">>, <<"func">> >>

\* BOLD image names: sub-01_task-qc[_part-<part>]_bold.nii[.gz]
BoldName(part, gz) ==
    <<"sub-", "01", "_task-qc">>
      \o (IF part = "none" THEN <<>> ELSE <<"_", "part-" \o part>>)
      \o <<"_bold", ".nii">> \o (IF gz THEN <<".gz">> ELSE <<>>)

\* The image files a dataset of the model may hold.
BoldFiles ==
    { FuncDir(with_ses) \o <<BoldName(part, TRUE)>>
        : with_ses \in BOOLEAN, part \in {"none", "mag", "phase"} } \cup
    { FuncDir(with_ses) \o <<BoldName("phase", FALSE)>> : with_ses \in BOOLEAN }

\* os.path.join(bids_dir, 'sub-*', 'ses-*', 'func', '*part-phase*_bold.nii*')
phase_pattern ==
    << <<"sub-", "*">>, <<"ses-", "*">>, <<"func">>,
       <<"*", "part-phase", "*", "_bold", ".nii", "*">> >>

\* part_tag = 'part-mag*' if phase images were found, else ''
part_tag(phase_list) == IF phase_list # {} THEN <<"part-mag", "*">> ELSE <<>>

\* The pattern of the series: sub-*/func/*{part_tag}*_bold.nii.gz with
\* no_sessions, else sub-*/ses-*/func/*{part_tag}_bold.nii.gz
epits_pattern(no_ses, tag) ==
    IF no_ses
    THEN << <<"sub-", "*">>, <<"func">>,
            <<"*">> \o tag \o <<"*", "_bold", ".nii", ".gz">> >>
    ELSE << <<"sub-", "*">>, <<"ses-", "*">>, <<"func">>,
            <<"*">> \o tag \o <<"_bold", ".nii", ".gz">> >>

\* _get_epits_list(): the paths globbed with the part tag chosen from the
\* phase images found.
get_epits_list(files, no_ses) ==
    glob(files, epits_pattern(no_ses, part_tag(glob(files, phase_pattern))))

EpitsInit ==
    /\ RoiIdle /\ MocoIdle
    /\ PairIdle /\ StepsIdle /\ RunIdle /\ DetrendIdle /\ ExtractIdle /\ HtmlIdle
    /\ bids_files \in SUBSET BoldFiles
    /\ no_sessions \in BOOLEAN
    /\ epits_list = {}
    /\ epits_pc = "start"

\* epits_list = self._get_epits_list()   (cbicqc.py line 131)
GetEpitsList ==
    /\ epits_pc = "start"
    /\ epits_list' = get_epits_list(bids_files, no_sessions)
    /\ epits_pc' = "returned"
    /\ UNCHANGED <<bids_files, no_sessions>>
    /\ UNCHANGED <<roi_vars, moco_vars, pair_vars, frames_done, run_vars,
                   detrend_vars, extract_vars, html_vars>>

EpitsNext == GetEpitsList

SpecEpits == EpitsInit /\ [][EpitsNext]_vars

\* A path names a phase image (a part-phase BOLD file).
IsPhaseImage(f) ==
    \E k \in 1 .. Len(f[Len(f)]) : f[Len(f)][k] = "part-phase"

\* C25: quality control is magnitude-only: whenever the dataset contains
\* phase images (part-phase BOLD files), no phase image is in the list
\* returned by _get_epits_list, both with sessions and with no_sessions set.
C25_NoPhaseImageListed ==
    (epits_pc = "returned" /\ \E f \in bids_files : IsPhaseImage(f)) =>
        \A f \in epits_list : ~IsPhaseImage(f)

(***************************************************************************)
(* Daily HTML report: main of cbicqa_report.py.  Numbers read by           *)
(* np.loadtxt are fixed-point integers in units of 1/FixedOne; a formatted *)
(* field is the pair of its conversion and the digits it prints.           *)
(***************************************************************************)

\* Units per 1.0 of the numbers of qa_info.txt and qa_stats.txt.
FixedOne == 100

RECURSIVE Pow10(_)
Pow10(k) == IF k = 0 THEN 1 ELSE 10 * Pow10(k - 1)

\* "%0.<k>f" % v: v rounded to k decimals, as the integer of its printed
\* digits (the model draws no value halfway between two printed numbers).
FormatF(k, v) ==
    LET mag == IF Pow10(k) >= FixedOne
               THEN IAbs(v) * (Pow10(k) \div FixedOne)
               ELSE (IAbs(v) + (FixedOne \div Pow10(k)) \div 2)
                        \div (FixedOne \div Pow10(k))
    IN  [conv |-> "f", decimals |-> k, digits |-> IF v < 0 THEN 0 - mag ELSE mag]

\* "%d" % v: the float truncated towards zero.
FormatD(v) ==
    [conv |-> "d", decimals |-> 0,
     digits |-> IF v < 0 THEN 0 - (IAbs(v) \div FixedOne) ELSE v \div FixedOne]

\* acq_date = "%d" % x[1], then YYYY-MM-DD from its characters 0..8: the
\* digits of the date with the two separators.
FormatDate(v) ==
    [conv |-> "date", decimals |-> 0, digits |-> FormatD(v).digits]

\* A template field left as it is by safe_substitute.
Unsubstituted == [conv |-> "$", decimals |-> 0, digits |-> 0]

\* The names main gives to the entries x[0] .. x[25] of qa_stats.txt, in order.
StatNames ==
    <<"phantom_a", "phantom_tau", "phantom_b", "phantom_mean", "phantom_spikes",
      "phantom_drift",
      "nyquist_a", "nyquist_tau", "nyquist_b", "nyquist_mean", "nyquist_spikes",
      "nyquist_drift",
      "noise_a", "noise_tau", "noise_b", "noise_mean", "noise_spikes",
      "noise_drift",
      "phantom_snr", "nyquist_snr",
      "com_x", "com_y", "com_z",
      "max_adx", "max_ady", "max_adz">>

\* Index in qa_stats.txt of the entry of a name.
StatIndex(name) == (CHOOSE k \in 1 .. Len(StatNames) : StatNames[k] = name) - 1

\* The local variables main unpacks from x = np.loadtxt(qa_stats_parfile).
ParseStats(x) == [n \in { StatNames[k] : k \in 1 .. Len(StatNames) } |-> x[StatIndex(n)]]

\* The $-fields of TEMPLATE_FORMAT.
TemplateFields ==
    { "acq_date", "scanner_serno", "scanner_freq", "TR_ms", "num_volumes",
      "phantom_snr", "nyquist_snr", "phantom_mean", "nyquist_mean", "noise_mean",
      "phantom_spikes", "nyquist_spikes", "noise_spikes",
      "phantom_drift", "nyquist_drift", "noise_drift",
      "com_x", "com_y", "com_z", "max_adx", "max_ady", "max_adz" }

\* qa_dict: the substitution dictionary main builds from the parsed values.
make_qa_dict(info, v) ==
    [ scanner_serno  |-> FormatD(info[0]),
      acq_date       |-> FormatDate(info[1]),
      scanner_freq   |-> FormatF(4, info[2]),
      TR_ms          |-> FormatF(1, info[3]),
      num_volumes    |-> FormatD(info[4]),
      phantom_mean   |-> FormatF(1, v.phantom_mean),
      nyquist_mean   |-> FormatF(1, v.nyquist_mean),
      noise_mean     |-> FormatF(1, v.noise_mean),
      phantom_snr    |-> FormatF(1, v.phantom_snr),
      nyquist_snr    |-> FormatF(1, v.nyquist_snr),
      phantom_spikes |-> FormatD(v.phantom_spikes),
      nyquist_spikes |-> FormatD(v.nyquist_spikes),
      noise_spikes   |-> FormatD(v.noise_spikes),
      phantom_drift  |-> FormatF(1, v.phantom_drift),
      nyquist_drift  |-> FormatF(1, v.nyquist_drift),
      noise_drift    |-> FormatF(1, v.noise_drift),
      com_x          |-> FormatF(2, v.com_x),
      com_y          |-> FormatF(2, v.com_y),
      com_z          |-> FormatF(2, v.com_y),
      max_adx        |-> FormatF(1, v.max_adx),
      max_ady        |-> FormatF(1, v.max_ady),
      max_adz        |-> FormatF(1, v.max_adz) ]

\* TEMPLATE.safe_substitute(qa_dict): per field of the template, its text.
safe_substitute(d) ==
    [n \in TemplateFields |-> IF n \in DOMAIN d THEN d[n] ELSE Unsubstituted]

\* Centre-of-mass coordinates (mm) and maximum displacements (um) drawn.
ComValues == {123, 0 - 234, 7000}
DispValues == {1234, 45678}

\* qa_info.txt: serial number, date, frequency (MHz), TR (ms), volumes.
InfoVector ==
    [k \in 0 .. 4 |->
        CASE k = 0 -> 35177 * FixedOne
          [] k = 1 -> 20130115 * FixedOne
          [] k = 2 -> 12325
          [] k = 3 -> 2000 * FixedOne
          [] OTHER -> 300 * FixedOne]

\* qa_stats.txt: 26 numbers; the model varies the centre of mass and the
\* displacements and fixes the fit parameters, means, spikes, drifts and SNRs.
IsStatsVector(x) ==
    \E c \in [20 .. 22 -> ComValues], d \in [23 .. 25 -> DispValues] :
        x = [k \in 0 .. 25 |->
                IF k \in 20 .. 22 THEN c[k]
                ELSE IF k \in 23 .. 25 THEN d[k]
                ELSE IF k % 6 = 4 /\ k < 18 THEN (k \div 6) * FixedOne
                ELSE (k + 1) * 1234]

HtmlInit ==
    /\ RoiIdle /\ MocoIdle
    /\ PairIdle /\ StepsIdle /\ RunIdle /\ DetrendIdle /\ ExtractIdle /\ EpitsIdle
    /\ qa_info = InfoVector
    /\ qa_stats = <<>> \/ IsStatsVector(qa_stats)
    /\ qa_dict = <<>>
    /\ html_data = <<>>
    /\ html_pc = "start"

html_rest == <<roi_vars, moco_vars, pair_vars, frames_done, run_vars,
               detrend_vars, extract_vars, epits_vars>>

\* main with no qa_stats.txt in the QA directory: message and sys.exit(1).
ReportNoStats ==
    /\ html_pc = "start"
    /\ qa_stats = <<>>
    /\ html_pc' = "exit"
    /\ UNCHANGED <<qa_info, qa_stats, qa_dict, html_data>>
    /\ UNCHANGED html_rest

\* main: parse qa_info.txt and qa_stats.txt, build qa_dict, substitute it
\* into the template and write index.html.
ReportMain ==
    /\ html_pc = "start"
    /\ qa_stats # <<>>
    /\ \E d \in {make_qa_dict(qa_info, ParseStats(qa_stats))} :
          /\ qa_dict' = d
          /\ html_data' = safe_substitute(d)
    /\ html_pc' = "done"
    /\ UNCHANGED <<qa_info, qa_stats>>
    /\ UNCHANGED html_rest

HtmlNext == ReportNoStats \/ ReportMain

SpecHtml == HtmlInit /\ [][HtmlNext]_vars

\* The conversion main applies to the field of a name.
FieldFormat(name, v) ==
    IF name \in {"phantom_spikes", "nyquist_spikes", "noise_spikes"} THEN FormatD(v)
    ELSE IF name \in {"com_x", "com_y", "com_z"} THEN FormatF(2, v)
    ELSE FormatF(1, v)

\* C30: in the daily HTML report every substituted field shows the value of
\* the statistics entry of the same name parsed from qa_stats.txt; in
\* particular com_x, com_y, com_z show stats entries 20, 21 and 22.
C30_FieldsShowOwnEntry ==
    html_pc = "done" =>
        /\ \A k \in 1 .. Len(StatNames) :
              StatNames[k] \in TemplateFields =>
                  html_data[StatNames[k]] = FieldFormat(StatNames[k], qa_stats[k - 1])
        /\ html_data["com_x"] = FormatF(2, qa_stats[20])
        /\ html_data["com_y"] = FormatF(2, qa_stats[21])
        /\ html_data["com_z"] = FormatF(2, qa_stats[22])

(***************************************************************************)
(* Claims C21, C23, C24, C27, C28 (checked under SpecRun)                  *)
(***************************************************************************)

\* The statements of _analyze_and_report after which the ROI builder has
\* been called.
RoiBuilderReached == \E k \in 1 .. Len(stage_log) : stage_log[k] = "register"

\* C21: for every mode string the motion estimator and the ROI builder
\* select the same variant within one run: whenever _moco ran the phantom
\* estimator register_template takes its phantom branch, whenever _moco ran
\* the live estimator register_template takes its live branch, and a mode
\* naming neither stops the run before the ROI builder is reached.
C21_SameVariant ==
    run_pc # "idle" =>
        /\ template # "none" => estimator # "none"
        /\ (estimator = "moco_phantom" /\ template # "none") => template = "fbirn"
        /\ (estimator = "moco_live" /\ template # "none") => template = "mni"
        /\ (~InMode("phantom", mode) /\ ~InMode("live", mode)) =>
              /\ template = "none"
              /\ estimator = "none"
              /\ ~RoiBuilderReached
              /\ run_pc \in {"loop", "moco", "metrics", "exit", "done"}
              /\ \A k \in 1 .. Len(procs) : procs[k].tool = "mcflirt"

\* C21 witness: a mode that names 'phantom' without being equal to it, the
\* phantom estimator has run and the template has been registered.
C21_Witness ==
    /\ InMode("phantom", mode) /\ mode # <<"phantom">>
    /\ estimator = "moco_phantom"
    /\ template = "fbirn"
    /\ RoiBuilderReached

\* The stages of _analyze_and_report in the order of the pipeline.
PipelineOrder ==
    <<"moco", "tmean", "register", "rois", "extract", "detrend", "signal_metrics",
      "report">>

\* C23: within _analyze_and_report each stage runs only after the stage
\* whose output it consumes has completed: motion correction, temporal mean,
\* template registration and ROI construction, ROI trace extraction,
\* detrending, metric aggregation; the report is built last and only if
\* every earlier stage completed.
C23_StagesInOrder ==
    run_pc # "idle" =>
        /\ Len(stage_log) <= Len(PipelineOrder)
        /\ \A k \in 1 .. Len(stage_log) : stage_log[k] = PipelineOrder[k]
        /\ \A k \in 1 .. Len(PipelineOrder) :
              run_pc = PipelineOrder[k] => Len(stage_log) = k - 1

\* C23 witness: an analysis in which every stage completed and the report
\* was built.
C23_Witness ==
    /\ stage_log = PipelineOrder
    /\ report_dir[epits_i].pdf

\* One step of the loop of run() from its head to series i.
C24_Step ==
    (run_pc = "loop" /\ epits_i' = epits_i + 1) =>
        LET i == epits_i + 1
            both == report_dir[i].pdf /\ report_dir[i].json
        IN  /\ (run_pc' = "moco" /\ analysed'[i] = analysed[i] + 1) <=> ~both
            /\ both => /\ run_pc' = "metrics"
                       /\ analysed' = analysed
                       /\ procs' = procs
                       /\ loaded' = loaded
                       /\ work_dir' = work_dir
                       /\ report_dir' = report_dir

\* C24: in run() a series is analysed iff its report PDF and its report JSON
\* do not both exist when the series is reached: a series whose two report
\* files both exist is skipped without any motion correction, registration
\* or report writing, and every other series reached is analysed exactly
\* once in that run.
C24_AnalysedIffNoReport ==
    /\ [][/\ C24_Step
          /\ analysed' # analysed => (run_pc = "loop" \/ run_pc' = "loop")
          /\ (run_pc' = "moco" /\ run_pc # "moco") => run_pc = "loop"]_vars
    /\ [](run_pc # "idle" =>
            \A i \in 1 .. MaxSeries :
                /\ analysed[i] <= 1
                /\ (analysed[i] = 0 /\ i <= epits_i) =>
                      /\ loaded[i] = NotLoaded
                      /\ ProcsOf(i) = {})

\* C24 witness: in one run a series with both report files was skipped and
\* its metrics collected, and a series with one report file is analysed.
C24_Witness ==
    /\ epits_i = 2
    /\ analysed[1] = 0 /\ metric_list = <<1>>
    /\ analysed[2] = 1 /\ report_dir[2].pdf /\ ~report_dir[2].json
    /\ run_pc = "tmean"

\* moco_postprocess has been called for the current series.
PostprocessReached ==
    /\ estimator # "none"
    /\ stage_log # <<>> \/ run_err \in {"KeyError", "ValueError", "IndexError"}

\* C27: whenever _analyze_and_report reaches motion post-processing, the
\* metadata dictionary contains RepetitionTime, when the JSON sidecar cannot
\* be opened and also when it opens but lacks fields, so moco_postprocess
\* never fails on a missing key.
C27_RepetitionTimePresent ==
    PostprocessReached =>
        /\ "RepetitionTime" \in DOMAIN meta
        /\ run_err # "KeyError"

====
